---------------------------- MODULE Spec2Model ----------------------------
(***************************************************************************)
(* OSPFS with a write-ahead journal (src/ospfsmod.c, src/journal.h).       *)
(*                                                                         *)
(* The disk image is the byte array ospfs_data.  It is modelled as one     *)
(* record, disk, with the regions the code addresses through typed views:  *)
(* the inode table, the free-block bitmap (1 = free), the blocks, and the  *)
(* journal region (header, block-number list, saved indirect and doubly    *)
(* indirect block, data slots).  A block is an array of OSPFS_NINDIRECT    *)
(* cells; a cell holds a block pointer, a data byte or a directory entry.  *)
(*                                                                         *)
(* Every function of the source that stores into the image is modelled as  *)
(* the sequence of stores it performs (one record per memcpy, assignment   *)
(* or bit operation).  An operation run to completion applies the whole    *)
(* sequence; the crash specification applies it one store at a time.       *)
(*                                                                         *)
(* The image geometry is scaled down: the source's OSPFS_NDIRECT = 10,     *)
(* OSPFS_NINDIRECT = 256 = JOURNAL_MAX_BLOCKS become the small numbers     *)
(* below, keeping OSPFS_NDIRECT < JOURNAL_MAX_BLOCKS = OSPFS_NINDIRECT.    *)
(***************************************************************************)
EXTENDS Integers, Sequences, FiniteSets, TLC

\* ------------------------------------------------------------------ bounds
\* Direct pointers per inode (ospfs_inode_t.oi_direct).
OSPFS_NDIRECT == 2
\* Pointers per indirect block; also the cells of a block.
OSPFS_NINDIRECT == 2
\* Blocks one journal transaction can carry (src/journal.h:17).
JOURNAL_MAX_BLOCKS == 2
\* Blocks of the data region of the image.
NDataBlocks == 13
\* Inodes of the image (os_ninodes): 0 reserved, 1 the root directory.
NInodes == 4

\* ------------------------------------------------------------ image layout
OSPFS_BLKSIZE == OSPFS_NINDIRECT
OSPFS_MAXFILEBLKS ==
  OSPFS_NDIRECT + OSPFS_NINDIRECT + OSPFS_NINDIRECT * OSPFS_NINDIRECT
OSPFS_MAXFILESIZE == OSPFS_MAXFILEBLKS * OSPFS_BLKSIZE
OSPFS_ROOT_INO == 1

\* Superblock fields: boot, superblock, bitmap, inode table, journal, data.
os_firstinob == 3
os_firstjournalb == os_firstinob + 1
os_njournalb == 4 + JOURNAL_MAX_BLOCKS
os_firstdatab == os_firstjournalb + os_njournalb
os_nblocks == os_firstdatab + NDataBlocks
os_ninodes == NInodes

BlockNos == 0 .. (os_nblocks - 1)
Cells == 0 .. (OSPFS_NINDIRECT - 1)
Slots == 0 .. (JOURNAL_MAX_BLOCKS - 1)
DirectIdx == 0 .. (OSPFS_NDIRECT - 1)
Inos == 0 .. (NInodes - 1)

ZeroBlock == [c \in Cells |-> 0]
ZeroBlocknos == [i \in Slots |-> 0]

\* memset(&inode, 0, ...): OSPFS_FTYPE_REG is the zero file type.
ZeroInode ==
  [oi_size |-> 0, oi_ftype |-> "REG", oi_nlink |-> 0, oi_mode |-> 0,
   oi_direct |-> [i \in DirectIdx |-> 0], oi_indirect |-> 0, oi_indirect2 |-> 0]

\* memset(&header, 0, sizeof(journal_header_t)): JOURNAL_EMPTY is 0.
ZeroHeader ==
  [execute_type |-> "EMPTY", completed |-> 0, inode_num |-> 0,
   inode |-> ZeroInode, n_blocks_affected |-> 0, indirect2_blockno |-> 0,
   indirect_blockno |-> 0, file_resize_type |-> {}, dir_data_blockno |-> 0]

\* ----------------------------------------------------------------- helpers
Min(a, b) == IF a < b THEN a ELSE b

ospfs_size2nblocks(size) == (size + OSPFS_BLKSIZE - 1) \div OSPFS_BLKSIZE

\* ospfs_block(blockno) read as an array of cells.  Blocks of the journal
\* region are held in the journal fields of the record, not here.
ospfs_block(d, blockno) ==
  IF blockno \in BlockNos THEN d.blocks[blockno] ELSE ZeroBlock

bitvector_test(d, i) == i \in DOMAIN d.bitmap /\ d.bitmap[i] = 1

\* A translation that reads the first indirect block of the doubly-indirect
\* block for every offset of that range.
ospfs_inode_blockno_first(d, oi, offset) ==
  LET blockno == offset \div OSPFS_BLKSIZE IN
  IF offset >= oi.oi_size \/ oi.oi_ftype = "SYMLINK" THEN 0
  ELSE IF blockno >= OSPFS_NDIRECT + OSPFS_NINDIRECT THEN
    LET blockoff == blockno - (OSPFS_NDIRECT + OSPFS_NINDIRECT)
        indirect2_block == ospfs_block(d, oi.oi_indirect2)
        indirect_block == ospfs_block(d, indirect2_block[0])
    IN indirect_block[blockoff % OSPFS_NINDIRECT]
  ELSE IF blockno >= OSPFS_NDIRECT THEN
    ospfs_block(d, oi.oi_indirect)[blockno - OSPFS_NDIRECT]
  ELSE oi.oi_direct[blockno]

ospfs_inode_blockno(d, oi, offset) ==
  LET blockno == offset \div OSPFS_BLKSIZE IN
  IF offset >= oi.oi_size \/ oi.oi_ftype = "SYMLINK" THEN 0
  ELSE IF blockno >= OSPFS_NDIRECT + OSPFS_NINDIRECT THEN
    LET blockoff == blockno - (OSPFS_NDIRECT + OSPFS_NINDIRECT)
        indirect2_block == ospfs_block(d, oi.oi_indirect2)
        indirect_block ==
          ospfs_block(d, indirect2_block[blockoff \div OSPFS_NINDIRECT])
    IN indirect_block[blockoff % OSPFS_NINDIRECT]
  ELSE IF blockno >= OSPFS_NDIRECT THEN
    ospfs_block(d, oi.oi_indirect)[blockno - OSPFS_NDIRECT]
  ELSE oi.oi_direct[blockno]

\* ------------------------------------------------------- bitmap allocator
\* find_free_block: scan from upper_bound, modulo os_nblocks, until
\* lower_bound.  fuel bounds the scan; -1 stands for a scan that never
\* reaches lower_bound.
RECURSIVE FindFreeFrom(_, _, _, _)
FindFreeFrom(d, blockno, lower_bound, fuel) ==
  IF blockno = lower_bound THEN 0
  ELSE IF fuel = 0 THEN 0 - 1
  ELSE IF bitvector_test(d, blockno) THEN blockno
  ELSE FindFreeFrom(d, (blockno + 1) % os_nblocks, lower_bound, fuel - 1)

\* A scan that does not wrap around at os_nblocks: above lower_bound it goes
\* on past the last block and never reaches lower_bound.
find_free_block_nowrap(d, lower_bound, upper_bound) ==
  LET stop == IF upper_bound <= lower_bound THEN lower_bound ELSE os_nblocks + 1
      free == {b \in upper_bound .. (stop - 1) : bitvector_test(d, b)}
  IN IF free # {} THEN CHOOSE b \in free : \A c \in free : b <= c
     ELSE IF upper_bound <= lower_bound THEN 0
     ELSE 0 - 1

find_free_block(d, lower_bound, upper_bound) ==
  FindFreeFrom(d, upper_bound, lower_bound, os_nblocks + 2)

\* allocate_blockno / free_block as the stores they perform: a store is a
\* record [k, a, v] (kind, address, value).
St(k, a, v) == [k |-> k, a |-> a, v |-> v]

allocate_blockno(blockno) ==
  IF os_firstdatab < blockno /\ blockno < os_nblocks
  THEN <<St("bitmap", blockno, 0)>> ELSE <<>>

free_block(blockno) ==
  IF os_nblocks < blockno \/ blockno < os_firstdatab
  THEN <<>> ELSE <<St("bitmap", blockno, 1)>>

\* ---------------------------------------------------- file-index classifier
block_indirect2_index(blockno) ==
  IF blockno < OSPFS_NDIRECT + OSPFS_NINDIRECT THEN 0 - 1 ELSE 0

block_indirect_index(blockno) ==
  IF blockno < OSPFS_NDIRECT THEN 0 - 1
  ELSE IF blockno - OSPFS_NDIRECT < OSPFS_NINDIRECT THEN 0
  ELSE (blockno - OSPFS_NDIRECT - OSPFS_NINDIRECT) \div OSPFS_NINDIRECT

block_direct_index(blockno) ==
  IF blockno < OSPFS_NDIRECT THEN blockno
  ELSE (blockno - OSPFS_NDIRECT) % OSPFS_NINDIRECT

init_file_index(oi) ==
  LET blk_size == ospfs_size2nblocks(oi.oi_size) IN
  [blk_size |-> blk_size,
   indir2_idx |-> block_indirect2_index(blk_size),
   indir_idx |-> block_indirect_index(blk_size),
   dir_idx |-> block_direct_index(blk_size)]

\* ----------------------------------------------------------- resize engine
\* Array accesses of the resize request; an index outside the array is
\* recorded in the request's oob flag (the C code would write past it).
\* calls is the history of the request: the calls of find_free_block made for
\* it, in order, each with its bounds and the block it returned.
GetAt(f, i) == IF i \in DOMAIN f THEN f[i] ELSE 0
SetAt(f, i, v) == IF i \in DOMAIN f THEN [f EXCEPT ![i] = v] ELSE f

init_resize_request(d, oi) ==
  LET index == init_file_index(oi)
      indirect2_blockno == IF index.indir2_idx = 0 THEN oi.oi_indirect2 ELSE 0
      indirect2_block ==
        IF index.indir2_idx = 0 THEN ospfs_block(d, indirect2_blockno)
        ELSE ZeroBlock
      indirect_blockno ==
        IF index.indir2_idx = 0 THEN indirect2_block[index.indir2_idx]
        ELSE IF index.indir2_idx < 0 /\ index.indir_idx = 0 THEN oi.oi_indirect
        ELSE 0
      indirect_block ==
        IF index.indir2_idx = 0 \/ (index.indir2_idx < 0 /\ index.indir_idx = 0)
        THEN ospfs_block(d, indirect_blockno)
        ELSE ZeroBlock
  IN [index |-> index,
      lower_bound |-> os_firstdatab - 1,
      upper_bound |-> os_firstdatab,
      indirect_blockno |-> indirect_blockno,
      indirect_block |-> indirect_block,
      indirect2_blockno |-> indirect2_blockno,
      indirect2_block |-> indirect2_block,
      resize_type |-> {},
      n |-> 0,
      blocknos |-> ZeroBlocknos,
      oob |-> FALSE,
      calls |-> <<>>]

\* The request after a call of find_free_block with its bounds returned
\* blockno.
find_free_called(r, blockno) ==
  [r EXCEPT !.calls = Append(@, [lower_bound |-> r.lower_bound,
                                 upper_bound |-> r.upper_bound,
                                 blockno |-> blockno])]

\* An update_bounds that leaves the bounds where they were, so that the next
\* search starts where the last one did.
update_bounds_keeps(r, new_num) == r

update_bounds(r, new_num) ==
  IF r.n = 0
  THEN [r EXCEPT !.lower_bound = new_num, !.upper_bound = new_num + 1]
  ELSE [r EXCEPT !.upper_bound = new_num + 1]

\* free_block_file: one removal staged into the inode copy oi and request r.
free_block_file(oi, r0) ==
  LET idx == init_file_index(oi)
      r == [r0 EXCEPT !.index = idx]
      size == (idx.blk_size - 1) * OSPFS_BLKSIZE
  IN
  IF idx.indir2_idx < 0 /\ idx.indir_idx < 0 THEN
    [oi |-> [oi EXCEPT !.oi_direct = SetAt(@, idx.dir_idx, 0), !.oi_size = size],
     r |-> [r EXCEPT !.blocknos = SetAt(@, r.n, oi.oi_direct[idx.dir_idx]),
                     !.n = @ + 1],
     error |-> "OK"]
  ELSE
    LET r1 == [r EXCEPT !.blocknos = SetAt(@, r.n, r.indirect_block[idx.dir_idx]),
                        !.indirect_block = SetAt(@, idx.dir_idx, 0),
                        !.n = @ + 1]
        edge == idx.dir_idx = 0
        both == edge /\ idx.indir2_idx = 0 /\ idx.indir_idx = 0
        r2 == IF ~edge THEN r1
              ELSE [r1 EXCEPT
                      !.indirect2_block =
                        IF idx.indir2_idx = 0 THEN SetAt(@, idx.indir_idx, 0) ELSE @,
                      !.oob = @ \/ (idx.indir2_idx = 0 /\ idx.indir_idx \notin Cells),
                      !.resize_type =
                        @ \cup {"INDIRECT"} \cup (IF both THEN {"INDIRECT2"} ELSE {})]
        oi2 == [oi EXCEPT
                  !.oi_indirect = IF edge /\ idx.indir2_idx # 0 THEN 0 ELSE @,
                  !.oi_indirect2 = IF both THEN 0 ELSE @,
                  !.oi_size = size]
    IN [oi |-> oi2, r |-> r2, error |-> "OK"]

\* add_block_file: one addition staged into the inode copy oi and request r,
\* reading the live bitmap of d.  It is written as its successive parts, each
\* taking what the parts before it computed.

\* The last part, with new1 the block found for the indirect block (when one
\* is needed): new1 is entered in the doubly indirect block or the inode, the
\* data block picked in the inode or the indirect block, and the size grows
\* by one block.
add_block_store(oi, r, picked, new1) ==
  LET idx == r.index
      needs1 == idx.indir_idx >= 0 /\ idx.dir_idx = 0
      rg0 == IF needs1
             THEN update_bounds([find_free_called(r, new1)
                                   EXCEPT !.indirect_blockno = new1], new1)
             ELSE r
      rg == IF needs1 /\ idx.indir2_idx = 0
            THEN [rg0 EXCEPT !.indirect2_block = SetAt(@, idx.indir_idx, new1),
                             !.oob = @ \/ idx.indir_idx \notin Cells]
            ELSE rg0
      oig == IF needs1 /\ idx.indir2_idx # 0
             THEN [oi EXCEPT !.oi_indirect = new1] ELSE oi
      direct == idx.indir2_idx < 0 /\ idx.indir_idx < 0
      oih == IF direct
             THEN [oig EXCEPT !.oi_direct = SetAt(@, idx.dir_idx, picked)]
             ELSE oig
      rh == IF direct THEN rg
            ELSE [rg EXCEPT !.indirect_block = SetAt(@, idx.dir_idx, picked)]
  IN
  IF needs1 /\ new1 = 0
  THEN [oi |-> oi, r |-> [find_free_called(r, 0) EXCEPT !.indirect_blockno = 0],
        error |-> "ENOSPC"]
  ELSE [oi |-> [oih EXCEPT !.oi_size = (idx.blk_size + 1) * OSPFS_BLKSIZE],
        r |-> [rh EXCEPT !.n = @ + 1],
        error |-> "OK"]

\* The indirect block: r and oi are the request and the inode after the part
\* on the doubly indirect block, new2 the block found for it (when needed).
add_block_indirect(d, oi, r, picked, new2) ==
  LET idx == r.index
      needs2 == idx.indir2_idx = 0 /\ idx.indir_idx = 0 /\ idx.dir_idx = 0
      needs1 == idx.indir_idx >= 0 /\ idx.dir_idx = 0
      re == IF needs2
            THEN update_bounds([find_free_called(r, new2)
                                  EXCEPT !.indirect2_blockno = new2], new2)
            ELSE r
      oie == IF needs2 THEN [oi EXCEPT !.oi_indirect2 = new2] ELSE oi
      rf == IF needs1 THEN [re EXCEPT !.resize_type = @ \cup {"INDIRECT"}] ELSE re
  IN
  IF needs2 /\ new2 = 0
  THEN [oi |-> oi, r |-> [find_free_called(r, 0) EXCEPT !.indirect2_blockno = 0],
        error |-> "ENOSPC"]
  ELSE IF needs1 /\ rf.n # 0
  THEN [oi |-> oi, r |-> [rf EXCEPT !.blocknos = SetAt(@, rf.n, 0)], error |-> "OK"]
  ELSE add_block_store(oie, rf, picked,
                       find_free_block(d, rf.lower_bound, rf.upper_bound))

\* The doubly indirect block: r is the request with the index of the block to
\* add, picked the block found for the data.
add_block_indirect2(d, oi, r, picked) ==
  LET idx == r.index
      needs2 == idx.indir2_idx = 0 /\ idx.indir_idx = 0 /\ idx.dir_idx = 0
      rb == [find_free_called(r, picked)
               EXCEPT !.blocknos = SetAt(@, r.n, picked)]
      rc == update_bounds(rb, picked)
      rd == IF needs2 THEN [rc EXCEPT !.resize_type = @ \cup {"INDIRECT2"}] ELSE rc
  IN
  IF picked = 0 THEN [oi |-> oi, r |-> rb, error |-> "ENOSPC"]
  ELSE IF needs2 /\ rd.n # 0
  THEN [oi |-> oi, r |-> [rd EXCEPT !.blocknos = SetAt(@, rd.n, 0)], error |-> "OK"]
  ELSE add_block_indirect(d, oi, rd, picked,
                          find_free_block(d, rd.lower_bound, rd.upper_bound))

\* The data block: r is the request with the index of the block to add.
add_block_data(d, oi, r) ==
  add_block_indirect2(d, oi, r, find_free_block(d, r.lower_bound, r.upper_bound))

add_block_file(d, oi, r0) ==
  add_block_data(d, oi, [r0 EXCEPT !.index = init_file_index(oi)])

\* ------------------------------------------------------------------ stores
\* The effect of one store on the image.
\* Stores whose bitmap store flips the bit instead of writing it.
ApplyStoreFlip(d, s) ==
  CASE s.k = "jheader" -> [d EXCEPT !.jheader = s.v]
    [] s.k = "jblocknos" -> [d EXCEPT !.jblocknos = s.v]
    [] s.k = "jindir" -> [d EXCEPT !.jindir = s.v]
    [] s.k = "jindir2" -> [d EXCEPT !.jindir2 = s.v]
    [] s.k = "jdata" -> [d EXCEPT !.jdata = SetAt(@, s.a, s.v)]
    [] s.k = "jcompleted" -> [d EXCEPT !.jheader.completed = s.v]
    [] s.k = "jtype" -> [d EXCEPT !.jheader.execute_type = s.v]
    [] s.k = "inode" -> [d EXCEPT !.inodes = SetAt(@, s.a, s.v)]
    [] s.k = "bitmap" -> [d EXCEPT !.bitmap = SetAt(@, s.a, 1 - GetAt(@, s.a))]
    [] s.k = "block" -> [d EXCEPT !.blocks = SetAt(@, s.a, s.v)]
    [] s.k = "cell" -> [d EXCEPT !.blocks =
                          SetAt(@, s.a[1], SetAt(ospfs_block(d, s.a[1]), s.a[2], s.v))]

ApplyStore(d, s) ==
  CASE s.k = "jheader" -> [d EXCEPT !.jheader = s.v]
    [] s.k = "jblocknos" -> [d EXCEPT !.jblocknos = s.v]
    [] s.k = "jindir" -> [d EXCEPT !.jindir = s.v]
    [] s.k = "jindir2" -> [d EXCEPT !.jindir2 = s.v]
    [] s.k = "jdata" -> [d EXCEPT !.jdata = SetAt(@, s.a, s.v)]
    [] s.k = "jcompleted" -> [d EXCEPT !.jheader.completed = s.v]
    [] s.k = "jtype" -> [d EXCEPT !.jheader.execute_type = s.v]
    [] s.k = "inode" -> [d EXCEPT !.inodes = SetAt(@, s.a, s.v)]
    [] s.k = "bitmap" -> [d EXCEPT !.bitmap = SetAt(@, s.a, s.v)]
    [] s.k = "block" -> [d EXCEPT !.blocks = SetAt(@, s.a, s.v)]
    [] s.k = "cell" -> [d EXCEPT !.blocks =
                          SetAt(@, s.a[1], SetAt(ospfs_block(d, s.a[1]), s.a[2], s.v))]

RECURSIVE ApplyStores(_, _)
ApplyStores(d, ss) ==
  IF ss = <<>> THEN d ELSE ApplyStores(ApplyStore(d, Head(ss)), Tail(ss))

RECURSIVE ConcatFor(_, _, _)
\* f[i] \o f[i+1] \o ... \o f[n-1]: the stores of a loop over i, in order.
ConcatFor(f, i, n) ==
  IF i >= n THEN <<>> ELSE f[i] \o ConcatFor(f, i + 1, n)

\* ----------------------------------------------------------------- journal
\* change_size_to_journal(header, r): the header it fills in ...
change_size_header(header, r) ==
  [header EXCEPT !.n_blocks_affected = r.n,
                 !.indirect2_blockno = r.indirect2_blockno,
                 !.indirect_blockno = r.indirect_blockno,
                 !.file_resize_type = r.resize_type]

\* ... and its stores into the journal region, the commit flag last.
change_size_to_journal(header, r) ==
  <<St("jheader", 0, change_size_header(header, r)),
    St("jblocknos", 0, r.blocknos)>>
  \o (IF r.indirect_blockno # 0 THEN <<St("jindir", 0, r.indirect_block)>> ELSE <<>>)
  \o (IF r.indirect2_blockno # 0 THEN <<St("jindir2", 0, r.indirect2_block)>> ELSE <<>>)
  \o <<St("jcompleted", 0, 1)>>

\* execute_journal(): the stores it performs for the journal found in d.
\* It does not test the completed flag.
execute_journal(d) ==
  LET h == d.jheader
      ty == h.execute_type
      inode_store ==
        IF h.inode_num < os_ninodes THEN <<St("inode", h.inode_num, h.inode)>> ELSE <<>>
      copy(blockno, image) ==
        IF blockno # 0 THEN <<St("block", blockno, image)>> ELSE <<>>
      free_i(i) == free_block(d.jblocknos[i])
      alloc_i(i) == allocate_blockno(d.jblocknos[i])
      write_i(i) == <<St("block", d.jblocknos[i], d.jdata[i])>>
      n == Min(h.n_blocks_affected, JOURNAL_MAX_BLOCKS)
      body ==
        IF ty = "FREE" THEN
          inode_store
          \o (IF "INDIRECT2" \in h.file_resize_type
              THEN free_block(h.indirect2_blockno) ELSE <<>>)
          \o copy(h.indirect2_blockno, d.jindir2)
          \o (IF "INDIRECT" \in h.file_resize_type
              THEN free_block(h.indirect_blockno) ELSE <<>>)
          \o copy(h.indirect_blockno, d.jindir)
          \o ConcatFor([i \in 0 .. n - 1 |-> free_i(i)], 0, n)
        ELSE IF ty = "ALLOC" THEN
          inode_store
          \o ConcatFor([i \in 0 .. n - 1 |-> alloc_i(i)], 0, n)
          \o (IF "INDIRECT" \in h.file_resize_type
              THEN allocate_blockno(h.indirect_blockno) ELSE <<>>)
          \o copy(h.indirect_blockno, d.jindir)
          \o (IF "INDIRECT2" \in h.file_resize_type
              THEN allocate_blockno(h.indirect2_blockno) ELSE <<>>)
          \o copy(h.indirect2_blockno, d.jindir2)
        ELSE IF ty = "WRITE" THEN ConcatFor([i \in 0 .. n - 1 |-> write_i(i)], 0, n)
        ELSE IF ty = "HRDLNK" \/ ty = "CREATE" THEN
          inode_store \o <<St("block", h.dir_data_blockno, d.jdata[0])>>
        ELSE <<>>
  IN body \o <<St("jcompleted", 0, 0), St("jtype", 0, "EMPTY")>>

\* execute_journal() run to completion on image d.
run_journal(d) == ApplyStores(d, execute_journal(d))

\* ------------------------------------------------------- change_size rounds
\* The inner loop of grow_size: stage additions until the batch is full, the
\* file has the desired number of blocks, or add_block_file touched an
\* indirect or doubly indirect block.
RECURSIVE grow_loop(_, _, _, _)
\* What follows one add_block_file, whose result is res.
grow_loop_next(d, res, desired_size) ==
  IF res.error # "OK" THEN res
  ELSE IF res.r.resize_type # {} THEN res
  ELSE grow_loop(d, res.oi, res.r, desired_size)

grow_loop(d, oi, r, desired_size) ==
  IF r.n < JOURNAL_MAX_BLOCKS /\ ospfs_size2nblocks(oi.oi_size) < desired_size
  THEN grow_loop_next(d, add_block_file(d, oi, r), desired_size)
  ELSE [oi |-> oi, r |-> r, error |-> "OK"]

\* One iteration of the outer loop of grow_size, up to the journal write.
\* res is what the inner loop left.
grow_round_end(header, new_size, res) ==
  LET oi == IF ospfs_size2nblocks(res.oi.oi_size) >= ospfs_size2nblocks(new_size)
            THEN [res.oi EXCEPT !.oi_size = new_size] ELSE res.oi
  IN [error |-> res.error,
      r |-> res.r,
      header |-> change_size_header([header EXCEPT !.inode = oi], res.r)]

grow_round(d, header, new_size) ==
  grow_round_end(header, new_size,
                 grow_loop(d, header.inode, init_resize_request(d, header.inode),
                           ospfs_size2nblocks(new_size)))

\* The inner loop of free_memory: stage removals until the batch is full, the
\* file has the desired number of blocks, or an indirect block was freed.
RECURSIVE free_loop(_, _, _)
\* What follows one free_block_file, whose result is res.
free_loop_next(res, desired_size) ==
  IF "INDIRECT" \in res.r.resize_type THEN res
  ELSE free_loop(res.oi, res.r, desired_size)

free_loop(oi, r, desired_size) ==
  IF r.n < JOURNAL_MAX_BLOCKS /\ ospfs_size2nblocks(oi.oi_size) > desired_size
  THEN free_loop_next(free_block_file(oi, r), desired_size)
  ELSE [oi |-> oi, r |-> r, error |-> "OK"]

\* One iteration of the outer loop of free_memory, up to the journal write.
\* res is what the inner loop left.
free_round_end(header, new_size, res) ==
  LET desired_size == ospfs_size2nblocks(new_size)
      whole == res.oi.oi_size = 0 /\ desired_size = 0
      oi == IF whole
            THEN [res.oi EXCEPT !.oi_direct = SetAt(@, 0, 0)]
            ELSE IF ospfs_size2nblocks(res.oi.oi_size) <= desired_size
            THEN [res.oi EXCEPT !.oi_size = new_size]
            ELSE res.oi
      r == IF whole
           THEN [res.r EXCEPT !.blocknos = SetAt(@, res.r.n, res.oi.oi_direct[0]),
                              !.oob = @ \/ res.r.n \notin Slots,
                              !.n = @ + 1]
           ELSE res.r
  IN [error |-> res.error,
      r |-> r,
      header |-> change_size_header([header EXCEPT !.inode = oi], r)]

free_round(d, header, new_size) ==
  free_round_end(header, new_size,
                 free_loop(header.inode, init_resize_request(d, header.inode),
                           ospfs_size2nblocks(new_size)))

\* The local header grow_size / free_memory start from.
resize_header(d, inode_num, execute_type) ==
  [ZeroHeader EXCEPT !.inode = d.inodes[inode_num],
                     !.inode_num = inode_num,
                     !.execute_type = execute_type]

\* change_size without its test of the file size limit.
change_size_kind_unbounded(oi, new_size) ==
  IF new_size < oi.oi_size THEN "FREE"
  ELSE IF oi.oi_size < new_size THEN "ALLOC"
  ELSE "none"

\* Which engine change_size picks: "none" when the size does not change and
\* "toobig" when the request is over OSPFS_MAXFILESIZE.
change_size_kind(oi, new_size) ==
  IF OSPFS_MAXFILESIZE < new_size THEN "toobig"
  ELSE IF new_size < oi.oi_size THEN "FREE"
  ELSE IF oi.oi_size < new_size THEN "ALLOC"
  ELSE "none"

\* Whether the outer loop of the engine runs another round.
more_rounds(header, new_size) ==
  IF header.execute_type = "ALLOC" THEN header.inode.oi_size < new_size
  ELSE header.inode.oi_size > new_size

resize_round(d, header, new_size) ==
  IF header.execute_type = "ALLOC" THEN grow_round(d, header, new_size)
  ELSE free_round(d, header, new_size)

\* A committed round applied in full: the journal write, then execute_journal.
commit_round(d, rd) ==
  run_journal(ApplyStores(d, change_size_to_journal(rd.header, rd.r)))

\* grow_size / free_memory run to completion from local header `header`.
\* rounds counts the committed rounds; fuel bounds the outer loop ("LOOP"
\* stands for a loop that does not end within it).
RECURSIVE resize_rounds(_, _, _, _, _)
\* What follows the staging of one round, whose result is rd.
resize_rounds_next(d, rd, new_size, rounds, fuel) ==
  IF rd.error # "OK"
  THEN [disk |-> d, ret |-> rd.error, rounds |-> rounds]
  ELSE resize_rounds(commit_round(d, rd), rd.header, new_size,
                     rounds + 1, fuel - 1)

resize_rounds(d, header, new_size, rounds, fuel) ==
  IF ~more_rounds(header, new_size)
  THEN [disk |-> d, ret |-> "OK", rounds |-> rounds]
  ELSE IF fuel = 0 THEN [disk |-> d, ret |-> "LOOP", rounds |-> rounds]
  ELSE resize_rounds_next(d, resize_round(d, header, new_size), new_size,
                          rounds, fuel)

\* A change_size that leaves the header of the round that failed in the
\* journal.
leaves_header(res, kind) ==
  IF res.ret = "ENOSPC"
  THEN [res EXCEPT !.disk = ApplyStore(@, St("jtype", 0, kind))]
  ELSE res

change_size_stages_failed(d, inode_num, new_size) ==
  LET kind == change_size_kind(d.inodes[inode_num], new_size) IN
  IF kind = "toobig" THEN [disk |-> d, ret |-> "ENOSPC", rounds |-> 0]
  ELSE IF kind = "none" THEN [disk |-> d, ret |-> "OK", rounds |-> 0]
  ELSE leaves_header(resize_rounds(d, resize_header(d, inode_num, kind),
                                   new_size, 0, 2 * OSPFS_MAXFILEBLKS + 2),
                     kind)

\* change_size(oi, inode_num, new_size) run to completion.
change_size(d, inode_num, new_size) ==
  LET kind == change_size_kind(d.inodes[inode_num], new_size) IN
  IF kind = "toobig" THEN [disk |-> d, ret |-> "ENOSPC", rounds |-> 0]
  ELSE IF kind = "none" THEN [disk |-> d, ret |-> "OK", rounds |-> 0]
  ELSE resize_rounds(d, resize_header(d, inode_num, kind), new_size, 0,
                     2 * OSPFS_MAXFILEBLKS + 2)

\* ------------------------------------------------------------------- state
\* disk: the image.  op: the call in progress and the stores it is at (crash
\* specification only).  last: the last call made and its result (history,
\* read by the properties only).  ncalls: calls made so far.  tx: the live
\* part of the image before the journal transaction in progress and after it
\* (history, crash specification only).
VARIABLES disk, op, last, ncalls, tx
vars == <<disk, op, last, ncalls, tx>>

\* Calls in one behaviour.
MaxCalls == 3

\* Names a directory entry can carry: name k is the name of k letters 'a'
\* (1 .. NNames; 0 is the empty name), so OSPFS_MAXNAMELEN is NNames.
NNames == 3
NameBase == NNames + 1
\* A directory entry (od_ino, od_name) held in one cell.
DirEntry(ino, name) == ino * NameBase + name
\* A name longer than OSPFS_MAXNAMELEN; it never gets into an entry.
LongName == NNames + 1
\* strncpy(od_name, name, len) with len the length of name: the first len
\* bytes of od_name are replaced and no terminating byte is written, so the
\* letters od_name held past them stay.
strncpy(dest, name) == IF name < dest THEN dest ELSE name
od_ino(cell) == cell \div NameBase
od_name(cell) == cell % NameBase

\* The image ospfsformat builds from a base directory holding a one-block
\* file and an empty file: the file's block comes first in the data region,
\* the root directory's next.
InitInodes ==
  [i \in Inos |->
     IF i = OSPFS_ROOT_INO
     THEN [ZeroInode EXCEPT !.oi_size = OSPFS_BLKSIZE, !.oi_ftype = "DIR",
                            !.oi_nlink = 1,
                            !.oi_direct = SetAt(@, 0, os_firstdatab + 1)]
     ELSE IF i = OSPFS_ROOT_INO + 1
     THEN [ZeroInode EXCEPT !.oi_size = OSPFS_BLKSIZE, !.oi_nlink = 1,
                            !.oi_direct = SetAt(@, 0, os_firstdatab)]
     ELSE IF i = OSPFS_ROOT_INO + 2
     THEN [ZeroInode EXCEPT !.oi_nlink = 1]
     ELSE ZeroInode]

InitDisk ==
  [inodes |-> InitInodes,
   bitmap |-> [b \in 0 .. os_nblocks |->
                 IF os_firstdatab + 2 <= b /\ b < os_nblocks THEN 1 ELSE 0],
   blocks |-> [b \in BlockNos |->
                 IF b = os_firstdatab THEN [c \in Cells |-> 1]
                 ELSE IF b = os_firstdatab + 1
                 THEN [c \in Cells |->
                         IF c = 0 THEN DirEntry(OSPFS_ROOT_INO + 1, 1)
                         ELSE IF c = 1 THEN DirEntry(OSPFS_ROOT_INO + 2, 2)
                         ELSE 0]
                 ELSE ZeroBlock],
   jheader |-> ZeroHeader,
   jblocknos |-> ZeroBlocknos,
   jindir |-> ZeroBlock,
   jindir2 |-> ZeroBlock,
   jdata |-> [i \in Slots |-> ZeroBlock]]

NoCtx ==
  [call |-> "none", pc |-> "done", ino |-> 0, new_size |-> 0,
   header |-> ZeroHeader, rounds |-> 0, f_pos |-> 0, left |-> 0,
   amount |-> 0, blocknos |-> ZeroBlocknos, name |-> 0, src_inode |-> ZeroInode,
   garbage |-> 0, entry_off |-> 0, count |-> 0, old_size |-> 0,
   symname |-> "plain"]

IdleOp == [phase |-> "idle", k |-> 0, ss |-> <<>>, commit |-> FALSE, ctx |-> NoCtx]

\* last: the call, its arguments (f_pos: the position a write started at),
\* the size of its file when it was entered, its result, the rounds of
\* change_size it committed and the bytes it moved; blockno is the argument
\* of a call of allocate_blockno or free_block, name the name given to
\* create, link or symlink.
NoCall ==
  [call |-> "none", ino |-> 0, new_size |-> 0, ret |-> "OK", rounds |-> 0,
   f_pos |-> 0, count |-> 0, amount |-> 0, old_size |-> 0, blockno |-> 0,
   name |-> 0]

\* The part of the image outside the journal region: inode table, bitmap and
\* blocks.
Live(d) == [inodes |-> d.inodes, bitmap |-> d.bitmap, blocks |-> d.blocks]

\* The journal region of image d.
Journal(d) ==
  [jheader |-> d.jheader, jblocknos |-> d.jblocknos, jindir |-> d.jindir,
   jindir2 |-> d.jindir2, jdata |-> d.jdata]

NoTx ==
  [pre |-> Live(InitDisk), post |-> Live(InitDisk), staged |-> Journal(InitDisk),
   ncrash |-> 0]

Init ==
  /\ disk = InitDisk
  /\ op = IdleOp
  /\ last = NoCall
  /\ ncalls = 0
  /\ tx = NoTx

\* Sizes a caller asks for: everything up to one over the largest file.
NewSizes == 0 .. (OSPFS_MAXFILESIZE + 1)
\* Files a caller can name: regular files that have a directory entry.
RegularFiles(d) ==
  {i \in Inos : d.inodes[i].oi_nlink > 0 /\ d.inodes[i].oi_ftype = "REG"}

\* ospfs_notify_change with ATTR_SIZE on a regular file: change_size run to
\* completion.
\* The state after change_size returned res.
Returned(ino, new_size, res) ==
  /\ disk' = res.disk
  /\ last' = [NoCall EXCEPT !.call = "change_size", !.ino = ino,
                            !.new_size = new_size, !.ret = res.ret,
                            !.rounds = res.rounds,
                            !.old_size = disk.inodes[ino].oi_size]

Setattr(ino, new_size) ==
  /\ op.phase = "idle"
  /\ ncalls < MaxCalls
  /\ ino \in RegularFiles(disk)
  /\ Returned(ino, new_size, change_size(disk, ino, new_size))
  /\ ncalls' = ncalls + 1
  /\ UNCHANGED <<op, tx>>

Next == \E ino \in Inos, new_size \in NewSizes : Setattr(ino, new_size)

Spec == Init /\ [][Next]_vars

\* ------------------------------------------------------------ ospfs_write
\* The bytes of the user buffer: byte k is UserByte + k % UserPeriod, none of
\* them a byte the image holds before the write.
UserByte == 2
UserPeriod == 3
UserData(k) == UserByte + (k % UserPeriod)

\* A copy loop that goes on after the batch is full: it stops only when the
\* bytes are out or a block is missing.
RECURSIVE write_batch_unbounded(_, _, _, _, _)
write_batch_unbounded(d, oi, f_pos, left, acc) ==
  IF left = 0 THEN acc
  ELSE LET blockno == ospfs_inode_blockno(d, oi, f_pos) IN
       IF blockno = 0 THEN [acc EXCEPT !.error = "EIO"]
       ELSE LET pos == f_pos % OSPFS_BLKSIZE
                n == Min(OSPFS_BLKSIZE - pos, left)
                data_buf == [c \in Cells |->
                               IF pos <= c /\ c < pos + n
                               THEN UserData(acc.base + acc.amount + c - pos)
                               ELSE ospfs_block(d, blockno)[c]]
            IN write_batch_unbounded(d, oi, f_pos + n, left - n,
                           [acc EXCEPT !.blocknos = SetAt(@, acc.n, blockno),
                                       !.data = Append(@, data_buf),
                                       !.n = @ + 1,
                                       !.amount = @ + n])

\* The copy loop of ospfs_write from file position f_pos with `left` bytes to
\* go, until the batch is full, the bytes are out, or a block is missing.
\* acc: the local blocknos array, the data buffers stored into the journal
\* data slots, blocks_stored, the bytes copied in this batch and, in base,
\* the bytes copied before it (how far buffer has moved).
RECURSIVE write_batch(_, _, _, _, _)
write_batch(d, oi, f_pos, left, acc) ==
  IF left = 0 \/ acc.n = JOURNAL_MAX_BLOCKS THEN acc
  ELSE LET blockno == ospfs_inode_blockno(d, oi, f_pos) IN
       IF blockno = 0 THEN [acc EXCEPT !.error = "EIO"]
       ELSE LET pos == f_pos % OSPFS_BLKSIZE
                n == Min(OSPFS_BLKSIZE - pos, left)
                data_buf == [c \in Cells |->
                               IF pos <= c /\ c < pos + n
                               THEN UserData(acc.base + acc.amount + c - pos)
                               ELSE ospfs_block(d, blockno)[c]]
            IN write_batch(d, oi, f_pos + n, left - n,
                           [acc EXCEPT !.blocknos = SetAt(@, acc.n, blockno),
                                       !.data = Append(@, data_buf),
                                       !.n = @ + 1,
                                       !.amount = @ + n])

\* write_to_journal(header, blocknos, blocks_stored).
write_to_journal(header, blocknos, blocks_stored) ==
  <<St("jheader", 0, [header EXCEPT !.n_blocks_affected = blocks_stored]),
    St("jblocknos", 0, blocknos),
    St("jcompleted", 0, 1)>>

\* restart_write_journal: its store into the journal header.
restart_write_journal == <<St("jtype", 0, "WRITE")>>

\* ------------------------------------------------------ directory entries
\* find_direntry(dir_oi, name): whether an entry of that name exists.
find_direntry(d, dir_oi, name) ==
  \E off \in 0 .. (dir_oi.oi_size - 1) :
     LET cell == ospfs_block(d, ospfs_inode_blockno(d, dir_oi, off))[off % OSPFS_BLKSIZE]
     IN od_ino(cell) # 0 /\ od_name(cell) = name

\* The scan of find_blank_direntry: the first (block, entry) whose od_ino is
\* 0, as the offset off = block * OSPFS_BLKSIZE + entry, or -1.
RECURSIVE ScanBlank(_, _, _)
ScanBlank(d, dir_oi, off) ==
  IF off >= ospfs_size2nblocks(dir_oi.oi_size) * OSPFS_BLKSIZE THEN 0 - 1
  ELSE LET blockno == ospfs_inode_blockno(d, dir_oi, (off \div OSPFS_BLKSIZE) * OSPFS_BLKSIZE)
       IN IF od_ino(ospfs_block(d, blockno)[off % OSPFS_BLKSIZE]) = 0 THEN off
          ELSE ScanBlank(d, dir_oi, off + 1)

\* create_to_journal(header, direntries).
create_to_journal(header, direntries) ==
  <<St("jheader", 0, header), St("jdata", 0, direntries), St("jcompleted", 0, 1)>>

\* The journal stores at the end of ospfs_link.
link_to_journal(header, direntries) ==
  <<St("jdata", 0, direntries), St("jheader", 0, header), St("jcompleted", 0, 1)>>

\* The inode number ospfs_create picks: the first inode with oi_nlink = 0.
RECURSIVE FirstFreeInode(_, _)
FirstFreeInode(d, i) ==
  IF i >= os_ninodes THEN os_ninodes
  ELSE IF d.inodes[i].oi_nlink = 0 THEN i
  ELSE FirstFreeInode(d, i + 1)

\* ------------------------------------------------------ crash specification
\* The calls run one store at a time, with a crash possible after any store
\* and the mount that follows it.  A call in progress is a context c: the
\* call, its arguments and locals, and pc, the place it is at.  Step(d, c)
\* runs the call from c on image d up to its next store into the image:
\*   "tx"    the stores ss that write the journal for one transaction
\*           (commit tells whether they end with completed = 1 and
\*           execute_journal follows);
\*   "store" one store outside a transaction;
\*   "ret"   the call returns ret.

\* Calls made in one behaviour of the crash specification, and crashes.
MaxCrashCalls == 2
MaxCrashes == 1

\* The length of the text of a symbolic link.
SymlinkLen == 1

StepRet(c, ret) == [kind |-> "ret", ret |-> ret, ctx |-> c, ss |-> <<>>, commit |-> FALSE]
StepTx(c, ss, commit) == [kind |-> "tx", ret |-> "running", ctx |-> c, ss |-> ss, commit |-> commit]
StepStore(c, s) == [kind |-> "store", ret |-> "running", ctx |-> c, ss |-> <<s>>, commit |-> FALSE]

\* ospfs_write from its copy loop on.
WriteStep(d, c) ==
  IF c.pc = "restart"
  THEN StepStore([c EXCEPT !.pc = "batch", !.blocknos = ZeroBlocknos],
                 restart_write_journal[1])
  ELSE IF c.left = 0 THEN StepRet(c, "OK")
  ELSE LET b == write_batch(d, d.inodes[c.ino], c.f_pos, c.left,
                            [blocknos |-> c.blocknos, data |-> <<>>, n |-> 0,
                             amount |-> 0, base |-> c.amount, error |-> "OK"])
           slot(i) == <<St("jdata", i, b.data[i + 1])>>
           slots == ConcatFor([i \in 0 .. b.n - 1 |-> slot(i)], 0, b.n)
           c2 == [c EXCEPT !.f_pos = @ + b.amount, !.left = @ - b.amount,
                           !.amount = @ + b.amount, !.blocknos = b.blocknos]
       IN IF b.error # "OK"
          THEN IF b.n = 0 THEN StepRet(c, b.error)
               ELSE StepTx([c2 EXCEPT !.pc = "fail"], slots, FALSE)
          ELSE StepTx([c2 EXCEPT !.pc = IF b.n = JOURNAL_MAX_BLOCKS
                                        THEN "restart" ELSE "batch"],
                      slots \o write_to_journal(c.header, b.blocknos, b.n), TRUE)

\* ospfs_link / ospfs_create after find_blank_direntry returned: entry_off is
\* the offset of the blank entry in the directory, or -1 for -ENOSPC.  The
\* callers keep the return value in a uint32_t, so -ENOSPC is not noticed and
\* names an offset past the end of the directory: block 0.
EntryStep(d, c) ==
  LET dir_oi == d.inodes[OSPFS_ROOT_INO]
      failed == c.entry_off < 0
      dir_data_blockno ==
        IF failed THEN 0
        ELSE ospfs_inode_blockno(d, dir_oi,
                                 (c.entry_off \div OSPFS_BLKSIZE) * OSPFS_BLKSIZE)
      direntry_list == ospfs_block(d, dir_data_blockno)
  IN IF c.call = "link"
     THEN LET offset == IF failed THEN 0 ELSE c.entry_off % OSPFS_BLKSIZE
              header == [ZeroHeader EXCEPT
                           !.execute_type = "HRDLNK",
                           !.n_blocks_affected = 1,
                           !.inode_num = c.ino,
                           !.inode = [c.src_inode EXCEPT !.oi_nlink = @ + 1],
                           !.dir_data_blockno = dir_data_blockno]
              od_name_was == IF offset \in DOMAIN direntry_list
                             THEN od_name(direntry_list[offset]) ELSE 0
              direntries == SetAt(direntry_list, offset,
                                  DirEntry(c.ino, strncpy(od_name_was, c.name)))
          IN StepTx([c EXCEPT !.pc = "done"], link_to_journal(header, direntries), TRUE)
     ELSE LET entry_ino == FirstFreeInode(d, 0)
              \* offset is not initialised when find_blank_direntry failed:
              \* c.garbage is the value found there, in or out of the array.
              offset == IF failed THEN c.garbage ELSE c.entry_off % OSPFS_BLKSIZE
              header == [ZeroHeader EXCEPT
                           !.execute_type = "CREATE",
                           !.dir_data_blockno = dir_data_blockno,
                           !.inode_num = entry_ino,
                           !.inode = [ZeroInode EXCEPT !.oi_nlink = 1]]
              direntries == SetAt(direntry_list, offset, DirEntry(entry_ino, c.name))
          IN IF entry_ino = os_ninodes THEN StepRet(c, "ENOSPC")
             ELSE StepTx([c EXCEPT !.pc = "done"],
                         create_to_journal(header, direntries), TRUE)

\* The block create_blank_direntry clears and takes its entry from after
\* change_size: the one holding the byte at the end of the last block of the
\* directory.
blank_direntry_block(d) ==
  LET dir_oi == d.inodes[OSPFS_ROOT_INO] IN
  ospfs_inode_blockno(d, dir_oi,
                      ospfs_size2nblocks(dir_oi.oi_size) * OSPFS_BLKSIZE)

\* ospfs_symlink after create_blank_direntry: its stores into the inode
\* table and the directory entry, one at a time.  c.entry_off is the offset
\* of the entry in the directory, or -1 for the entry create_blank_direntry
\* took after change_size; c.ino is the inode picked.  The text of the link
\* lies over the block pointers of the inode and is left out.
SymlinkStep(d, c) ==
  LET dir_oi == d.inodes[OSPFS_ROOT_INO]
      entry_ino == FirstFreeInode(d, 0)
      dir_data_blockno ==
        IF c.entry_off < 0 THEN blank_direntry_block(d)
        ELSE ospfs_inode_blockno(d, dir_oi,
                                 (c.entry_off \div OSPFS_BLKSIZE) * OSPFS_BLKSIZE)
      offset == IF c.entry_off < 0 THEN 0 ELSE c.entry_off % OSPFS_BLKSIZE
  IN IF c.pc = "symlink"
     THEN IF entry_ino = os_ninodes THEN StepRet(c, "ENOSPC")
          ELSE StepStore([c EXCEPT !.pc = "symlink_ftype", !.ino = entry_ino],
                         St("inode", entry_ino,
                            [d.inodes[entry_ino] EXCEPT !.oi_nlink = 1]))
     ELSE IF c.pc = "symlink_ftype"
     THEN StepStore([c EXCEPT !.pc = "symlink_size"],
                    St("inode", c.ino,
                       [d.inodes[c.ino] EXCEPT !.oi_ftype = "SYMLINK"]))
     ELSE IF c.pc = "symlink_size"
     THEN StepStore([c EXCEPT !.pc = "symlink_entry"],
                    St("inode", c.ino,
                       [d.inodes[c.ino] EXCEPT !.oi_size = SymlinkLen]))
     ELSE IF c.symname = "nosep"
     THEN \* a text that starts with "root?" and holds no ':'
          StepRet(c, "ENAMETOOLONG")
     ELSE StepStore([c EXCEPT !.pc = "done"],
                    St("cell", <<dir_data_blockno, offset>>,
                       DirEntry(c.ino, c.name)))

\* What follows change_size in its caller.
AfterResize(d, c, ret) ==
  IF c.call = "change_size" THEN StepRet(c, ret)
  ELSE IF c.call = "unlink" THEN StepRet(c, "OK")
  ELSE IF c.call = "write"
  THEN IF ret # "OK" THEN StepRet(c, ret)
       ELSE WriteStep(d, [c EXCEPT !.pc = "batch",
                                   !.header = resize_header(d, c.ino, "WRITE")])
  ELSE IF c.call = "symlink"
  THEN \* create_blank_direntry drops the error of change_size and goes on:
       \* memset(ospfs_inode_data(dir_oi, nblocks * OSPFS_BLKSIZE), 0, ...),
       \* and the entry is the first one of that block.
       StepStore([c EXCEPT !.pc = "symlink", !.entry_off = 0 - 1],
                 St("block", blank_direntry_block(d), ZeroBlock))
  ELSE \* find_blank_direntry
       IF ret # "OK" THEN EntryStep(d, [c EXCEPT !.pc = "entry", !.entry_off = 0 - 1])
       ELSE LET dir_oi == d.inodes[OSPFS_ROOT_INO]
                nblocks == ospfs_size2nblocks(dir_oi.oi_size)
                \* memset(ospfs_inode_data(dir_oi, nblocks * OSPFS_BLKSIZE), 0, ...)
                target == ospfs_inode_blockno(d, dir_oi, nblocks * OSPFS_BLKSIZE)
            IN StepStore([c EXCEPT !.pc = "entry",
                                   !.entry_off = (nblocks - 1) * OSPFS_BLKSIZE],
                         St("block", target, ZeroBlock))

\* grow_size / free_memory after the staging of one round, whose result is
\* rd: the error is returned, or the round is written to the journal.
RoundStep(d, c, rd) ==
  IF rd.error # "OK" THEN AfterResize(d, c, rd.error)
  ELSE StepTx([c EXCEPT !.header = rd.header, !.rounds = @ + 1],
              change_size_to_journal(rd.header, rd.r), TRUE)

\* grow_size / free_memory at the top of the outer loop.
ResizeStep(d, c) ==
  IF ~more_rounds(c.header, c.new_size) THEN AfterResize(d, c, "OK")
  ELSE RoundStep(d, c, resize_round(d, c.header, c.new_size))

\* change_size(oi, inode_num, new_size) entered from context c.
StartResize(d, c, inode_num, new_size) ==
  LET kind == change_size_kind(d.inodes[inode_num], new_size) IN
  IF kind = "toobig" THEN AfterResize(d, c, "ENOSPC")
  ELSE IF kind = "none" THEN AfterResize(d, c, "OK")
  ELSE ResizeStep(d, [c EXCEPT !.pc = "resize", !.new_size = new_size,
                               !.header = resize_header(d, inode_num, kind)])

\* The offset of the first entry of the directory that carries the name and
\* an inode number above 0, as ospfs_dir_lookup and ospfs_unlink find it, or
\* the size of the directory.
RECURSIVE LookupOff(_, _, _, _)
LookupOff(d, dir_oi, name, off) ==
  IF off >= dir_oi.oi_size THEN dir_oi.oi_size
  ELSE LET cell == ospfs_block(d, ospfs_inode_blockno(d, dir_oi, off))[off % OSPFS_BLKSIZE]
       IN IF od_ino(cell) > 0 /\ od_name(cell) = name THEN off
          ELSE LookupOff(d, dir_oi, name, off + 1)

\* ospfs_unlink from its first store on: c.entry_off is the offset of the
\* entry, c.ino the inode of the file.
UnlinkStep(d, c) ==
  LET dir_oi == d.inodes[OSPFS_ROOT_INO]
      blockno == ospfs_inode_blockno(d, dir_oi, c.entry_off)
      cell == ospfs_block(d, blockno)[c.entry_off % OSPFS_BLKSIZE]
      oi == d.inodes[c.ino]
  IN IF c.pc = "unlink"
     THEN StepStore([c EXCEPT !.pc = "unlink_nlink"],
                    St("cell", <<blockno, c.entry_off % OSPFS_BLKSIZE>>,
                       DirEntry(0, od_name(cell))))
     ELSE IF c.pc = "unlink_nlink"
     THEN StepStore([c EXCEPT !.pc = "unlink_tail"],
                    St("inode", c.ino, [oi EXCEPT !.oi_nlink = @ - 1]))
     ELSE IF oi.oi_ftype = "SYMLINK"
     THEN StepStore([c EXCEPT !.pc = "done"], St("inode", c.ino, ZeroInode))
     ELSE IF oi.oi_nlink = 0
     THEN StartResize(d, [c EXCEPT !.pc = "done"], c.ino, 0)
     ELSE StepRet(c, "OK")

\* The call goes on from c on image d.
Step(d, c) ==
  IF c.pc = "resize" THEN ResizeStep(d, c)
  ELSE IF c.pc \in {"batch", "restart"} THEN WriteStep(d, c)
  ELSE IF c.pc = "entry" THEN EntryStep(d, c)
  ELSE IF c.pc \in {"symlink", "symlink_ftype", "symlink_size", "symlink_entry"}
  THEN SymlinkStep(d, c)
  ELSE IF c.pc \in {"unlink", "unlink_nlink", "unlink_tail"} THEN UnlinkStep(d, c)
  ELSE IF c.pc = "fail" THEN StepRet(c, "EIO")
  ELSE StepRet(c, "OK")

\* find_blank_direntry(dir_oi, &offset, inode_num) entered from context c.
StartEntry(d, c) ==
  LET dir_oi == d.inodes[OSPFS_ROOT_INO]
      off == ScanBlank(d, dir_oi, 0)
  IN IF off >= 0 THEN EntryStep(d, [c EXCEPT !.pc = "entry", !.entry_off = off])
     ELSE StartResize(d, c, OSPFS_ROOT_INO, dir_oi.oi_size + OSPFS_BLKSIZE)

\* The live part of the image after the journal stores ss and the replay of
\* the journal they leave.
TxPost(d, ss) ==
  LET staged == ApplyStores(d, ss)
  IN Live(ApplyStores(staged, execute_journal(staged)))

\* The state that follows step st taken on image d.
Dispatch(d, st) ==
  /\ last' = [NoCall EXCEPT !.call = st.ctx.call, !.ino = st.ctx.ino,
                            !.new_size = st.ctx.new_size, !.ret = st.ret,
                            !.rounds = st.ctx.rounds,
                            !.f_pos = st.ctx.f_pos - st.ctx.amount,
                            !.count = st.ctx.count, !.amount = st.ctx.amount,
                            !.old_size = st.ctx.old_size,
                            !.name = st.ctx.name]
  /\ IF st.kind = "ret"
     THEN op' = IdleOp /\ UNCHANGED tx
     ELSE IF st.kind = "store"
     THEN op' = [phase |-> "direct", k |-> 0, ss |-> st.ss, commit |-> FALSE,
                 ctx |-> st.ctx]
          /\ UNCHANGED tx
     ELSE /\ op' = [phase |-> "stage", k |-> 0, ss |-> st.ss,
                    commit |-> st.commit, ctx |-> st.ctx]
          /\ tx' = [pre |-> Live(d),
                    post |-> IF st.commit THEN TxPost(d, st.ss) ELSE Live(d),
                    staged |-> Journal(ApplyStores(d, st.ss)),
                    ncrash |-> tx.ncrash]

\* A call is entered.
Begin ==
  /\ op.phase = "idle"
  /\ ncalls < MaxCrashCalls
  /\ ncalls' = ncalls + 1
  /\ UNCHANGED disk

\* ospfs_notify_change with ATTR_SIZE: change_size.
BeginChangeSize(ino, new_size) ==
  /\ ino \in RegularFiles(disk)
  /\ LET c == [NoCtx EXCEPT !.call = "change_size", !.ino = ino,
                            !.new_size = new_size,
                            !.old_size = disk.inodes[ino].oi_size]
     IN Begin /\ Dispatch(disk, StartResize(disk, c, ino, new_size))

\* ospfs_write(filp, buffer, count, f_pos); garbage is what the local
\* blocknos array holds before the loop fills it.
BeginWrite(ino, f_pos, count, append, garbage) ==
  /\ ino \in RegularFiles(disk)
  /\ LET oi == disk.inodes[ino]
         pos == IF append THEN oi.oi_size ELSE f_pos
         c == [NoCtx EXCEPT !.call = "write", !.ino = ino, !.f_pos = pos,
                            !.left = count, !.new_size = pos + count,
                            !.count = count, !.old_size = oi.oi_size,
                            !.blocknos = [i \in Slots |-> garbage]]
     IN Begin
        /\ Dispatch(disk,
             IF oi.oi_size < pos + count THEN StartResize(disk, c, ino, pos + count)
             ELSE AfterResize(disk, c, "OK"))

\* ospfs_link(src_dentry, dir, dst_dentry) in the root directory.
BeginLink(src, name) ==
  /\ src \in RegularFiles(disk)
  /\ LET dir_oi == disk.inodes[OSPFS_ROOT_INO]
         c == [NoCtx EXCEPT !.call = "link", !.ino = src, !.name = name,
                            !.src_inode = disk.inodes[src]]
     IN Begin
        /\ Dispatch(disk,
             IF src = 0 THEN StepRet(c, "EIO")
             ELSE IF name = LongName THEN StepRet(c, "ENAMETOOLONG")
             ELSE IF find_direntry(disk, dir_oi, name) THEN StepRet(c, "EEXIST")
             ELSE StartEntry(disk, c))

\* ospfs_create(dir, dentry, mode, nd) in the root directory, for any name:
\* the function does not look the name up.
BeginCreate(name, garbage) ==
  LET c == [NoCtx EXCEPT !.call = "create", !.name = name,
                         !.garbage = garbage]
  IN Begin /\ Dispatch(disk, StartEntry(disk, c))

\* create_blank_direntry(dir_oi, inode_num) entered from context c.
StartBlankEntry(d, c) ==
  LET dir_oi == d.inodes[OSPFS_ROOT_INO]
      off == ScanBlank(d, dir_oi, 0)
  IN IF off >= 0
     THEN SymlinkStep(d, [c EXCEPT !.pc = "symlink", !.entry_off = off])
     ELSE StartResize(d, c, OSPFS_ROOT_INO, dir_oi.oi_size + OSPFS_BLKSIZE)

\* ospfs_symlink(dir, dentry, symname) in the root directory.  symname is
\* the text of the link as far as the function looks at it: "plain",
\* "nosep" (it starts with "root?" and holds no ':') or "toolong" (longer
\* than OSPFS_MAXSYMLINKLEN).
BeginSymlink(name, symname) ==
  LET c == [NoCtx EXCEPT !.call = "symlink", !.name = name,
                         !.symname = symname]
  IN Begin
     /\ Dispatch(disk,
          IF name = LongName THEN StepRet(c, "ENAMETOOLONG")
          ELSE IF find_direntry(disk, disk.inodes[OSPFS_ROOT_INO], name)
          THEN StepRet(c, "EEXIST")
          ELSE IF symname = "toolong" THEN StepRet(c, "ENAMETOOLONG")
          ELSE StartBlankEntry(disk, c))

\* The next store of the journal write of the transaction.
StageStore ==
  /\ op.phase = "stage"
  /\ disk' = ApplyStore(disk, op.ss[op.k + 1])
  /\ UNCHANGED ncalls
  /\ IF op.k + 1 < Len(op.ss)
     THEN op' = [op EXCEPT !.k = @ + 1] /\ UNCHANGED <<last, tx>>
     ELSE IF op.commit
     THEN op' = [op EXCEPT !.phase = "exec", !.k = 0, !.ss = <<>>]
          /\ UNCHANGED <<last, tx>>
     ELSE Dispatch(disk', Step(disk', op.ctx))

\* The next store of execute_journal; after its last store the call goes on.
ExecStore ==
  /\ op.phase = "exec"
  /\ UNCHANGED ncalls
  /\ LET ss == execute_journal(disk) IN
     /\ disk' = ApplyStore(disk, ss[op.k + 1])
     /\ IF op.k + 1 < Len(ss)
        THEN op' = [op EXCEPT !.k = @ + 1] /\ UNCHANGED <<last, tx>>
        ELSE Dispatch(disk', Step(disk', op.ctx))

\* A store outside a transaction; the call goes on.
DirectStore ==
  /\ op.phase = "direct"
  /\ UNCHANGED ncalls
  /\ disk' = ApplyStore(disk, op.ss[1])
  /\ Dispatch(disk', Step(disk', op.ctx))

\* The machine stops between two stores: the locals of the call are lost,
\* the image stays as it is.
Crash ==
  /\ op.phase \in {"stage", "exec", "direct"}
  /\ tx.ncrash < MaxCrashes
  /\ op' = [IdleOp EXCEPT !.phase = "crashed"]
  /\ last' = [last EXCEPT !.ret = "crashed"]
  /\ tx' = [tx EXCEPT !.ncrash = @ + 1]
  /\ UNCHANGED <<disk, ncalls>>

\* ospfs_fill_super: the mount after a crash.  It builds the root inode and
\* does not read or write the journal.
ospfs_fill_super(d) == d

Mount ==
  /\ op.phase = "crashed"
  /\ disk' = ospfs_fill_super(disk)
  /\ op' = IdleOp
  /\ last' = [NoCall EXCEPT !.call = "mount"]
  /\ UNCHANGED <<ncalls, tx>>

\* What a caller passes.
Names == 1 .. NNames
NameArgs == Names \cup {LongName}
SymNames == {"plain", "nosep", "toolong"}
WritePositions == {0, OSPFS_BLKSIZE + 1}
WriteCounts == {1, JOURNAL_MAX_BLOCKS * OSPFS_BLKSIZE, 2 * OSPFS_BLKSIZE + 1}
GarbageValues == {0, OSPFS_BLKSIZE}

CrashSizes ==
  {0, OSPFS_BLKSIZE + 1, (OSPFS_NDIRECT + OSPFS_NINDIRECT + 1) * OSPFS_BLKSIZE,
   OSPFS_MAXFILESIZE, OSPFS_MAXFILESIZE + 1}

NextCrash ==
  \/ \E ino \in Inos, new_size \in CrashSizes : BeginChangeSize(ino, new_size)
  \/ \E ino \in Inos, f_pos \in WritePositions, count \in WriteCounts,
        append \in BOOLEAN, garbage \in GarbageValues :
        BeginWrite(ino, f_pos, count, append, garbage)
  \/ \E src \in Inos, name \in NameArgs : BeginLink(src, name)
  \/ \E name \in Names, garbage \in GarbageValues : BeginCreate(name, garbage)
  \/ \E name \in NameArgs, symname \in SymNames : BeginSymlink(name, symname)
  \/ StageStore
  \/ ExecStore
  \/ DirectStore
  \/ Crash
  \/ Mount

SpecCrash == Init /\ [][NextCrash]_vars

\* ----------------------------------------------------- names specification
\* create, link and unlink in the root directory, each call run to its
\* return with no crash.

\* Calls in one behaviour of the names specification.
MaxNameCalls == 4

\* The image after the stores of step st: the journal write of a committed
\* transaction is followed by execute_journal.
Replayed(staged) == ApplyStores(staged, execute_journal(staged))
RunStores(d, st) ==
  IF st.kind = "tx" /\ st.commit THEN Replayed(ApplyStores(d, st.ss))
  ELSE ApplyStores(d, st.ss)

\* The call runs from step st on image d to its return.
RECURSIVE RunCall(_, _)
RECURSIVE RunFrom(_, _)
RunCall(d, st) ==
  IF st.kind = "ret" THEN [disk |-> d, ret |-> st.ret, ctx |-> st.ctx]
  ELSE RunFrom(RunStores(d, st), st.ctx)
RunFrom(d, c) == RunCall(d, Step(d, c))

\* The call returned with result r.
CallDone(r) ==
  /\ ncalls < MaxNameCalls
  /\ ncalls' = ncalls + 1
  /\ disk' = r.disk
  /\ last' = [NoCall EXCEPT !.call = r.ctx.call, !.ino = r.ctx.ino,
                            !.new_size = r.ctx.new_size,
                            !.name = r.ctx.name, !.ret = r.ret]
  /\ UNCHANGED <<op, tx>>

\* ospfs_create(dir, dentry, mode, nd).
Create(name, garbage) ==
  LET c == [NoCtx EXCEPT !.call = "create", !.name = name, !.garbage = garbage]
  IN CallDone(RunCall(disk, StartEntry(disk, c)))

\* ospfs_link(src_dentry, dir, dst_dentry) for a name that is not too long.
Link(src, name) ==
  /\ src \in RegularFiles(disk)
  /\ LET dir_oi == disk.inodes[OSPFS_ROOT_INO]
         c == [NoCtx EXCEPT !.call = "link", !.ino = src, !.name = name,
                            !.src_inode = disk.inodes[src]]
     IN CallDone(RunCall(disk,
                         IF src = 0 THEN StepRet(c, "EIO")
                         ELSE IF find_direntry(disk, dir_oi, name)
                         THEN StepRet(c, "EEXIST")
                         ELSE StartEntry(disk, c)))

\* ospfs_unlink(dirino, dentry): the caller has looked the name up and
\* passes the inode ospfs_dir_lookup found.
Unlink(name) ==
  LET dir_oi == disk.inodes[OSPFS_ROOT_INO]
      entry_off == LookupOff(disk, dir_oi, name, 0)
      cell == ospfs_block(disk, ospfs_inode_blockno(disk, dir_oi, entry_off))
                [entry_off % OSPFS_BLKSIZE]
      c == [NoCtx EXCEPT !.call = "unlink", !.pc = "unlink", !.name = name,
                         !.ino = od_ino(cell), !.entry_off = entry_off]
  IN /\ entry_off < dir_oi.oi_size
     /\ CallDone(RunCall(disk, UnlinkStep(disk, c)))

\* ospfs_notify_change with ATTR_SIZE on a regular file.
Resize(ino, new_size) ==
  /\ ino \in RegularFiles(disk)
  /\ LET c == [NoCtx EXCEPT !.call = "change_size", !.ino = ino,
                            !.new_size = new_size]
     IN CallDone(RunCall(disk, StartResize(disk, c, ino, new_size)))

\* Sizes asked for: a file that reaches into the doubly-indirect range.
NameSizes == {OSPFS_MAXFILESIZE - 1}

NextNames ==
  \/ \E name \in Names, garbage \in GarbageValues : Create(name, garbage)
  \/ \E ino \in Inos, new_size \in NameSizes : Resize(ino, new_size)
  \/ \E src \in Inos, name \in Names : Link(src, name)
  \/ \E name \in Names : Unlink(name)

SpecNames == Init /\ [][NextNames]_vars


\* ------------------------------------------------- journal and crash claims
\* Recovery as the specification describes it: replay when the header has
\* completed = 1, discard otherwise; the journal is cleared either way.
Recover(d) ==
  IF d.jheader.completed = 1 THEN ApplyStores(d, execute_journal(d))
  ELSE ApplyStores(d, <<St("jcompleted", 0, 0), St("jtype", 0, "EMPTY")>>)

\* A store of the transaction tx describes has been performed and its replay
\* has not ended.
InTransaction == op.phase = "exec" \/ (op.phase = "stage" /\ op.k >= 1)

\* C1: crash atomicity.  In every state a transaction passes through, from
\* its first journal store to the last store of its replay, recovery (replay
\* when completed = 1, discard otherwise) gives an inode table, bitmap and
\* blocks equal to those before the transaction was staged or to those after
\* it was fully applied.
CrashAtomicity ==
  InTransaction => Live(Recover(disk)) \in {tx.pre, tx.post}

\* C2: commit barrier.  In every state where the journal header has
\* completed = 1 (the states before the first store of a transaction set
\* aside, where the journal is still the previous transaction's), the header and every part of the journal that replay reads
\* hold the values the transaction staged: replay performs the stores the
\* staged journal calls for.
CommitBarrier ==
  (disk.jheader.completed = 1 /\ ~(op.phase = "stage" /\ op.k = 0)) =>
    /\ disk.jheader = tx.staged.jheader
    /\ execute_journal(disk) =
         execute_journal([disk EXCEPT !.jheader = tx.staged.jheader,
                                      !.jblocknos = tx.staged.jblocknos,
                                      !.jindir = tx.staged.jindir,
                                      !.jindir2 = tx.staged.jindir2,
                                      !.jdata = tx.staged.jdata])

\* C3: recovery at mount.  The mount that follows a crash leaves the image
\* recovery gives: a journal with completed = 1 replayed and cleared, any
\* other journal cleared with no inode, bitmap bit or block changed.
MountRecovers ==
  [][op.phase = "crashed" /\ op'.phase = "idle" => disk' = Recover(disk)]_vars

\* C4: idempotent replay.  For a journal with completed = 1, at any point of
\* its replay, replaying from the start gives the inode table, bitmap and
\* blocks of one uninterrupted replay, and so does replaying once more after
\* that.
ReplayIdempotent ==
  (op.phase = "exec" /\ disk.jheader.completed = 1) =>
    LET J == execute_journal(disk)
        once == ApplyStores(disk, J)
    IN /\ Live(once) = tx.post
       /\ Live(ApplyStores(once, J)) = tx.post

\* C4 is reached inside the replay of a hard-link journal, between its inode
\* store and its directory-block store.
ReplayIdempotentWitness ==
  /\ op.phase = "exec"
  /\ op.k = 1
  /\ disk.jheader.completed = 1
  /\ disk.jheader.execute_type = "HRDLNK"
  /\ Live(disk) # tx.pre
  /\ Live(disk) # tx.post

\* ------------------------------------------------------- chains and bitmap
\* Non-zero cells of a pointer block.
PointerCells(d, blockno) == {c \in Cells : ospfs_block(d, blockno)[c] # 0}

\* Number of non-zero data-block pointers reachable through the chain of oi:
\* direct slots, the indirect block, and the indirect blocks of the doubly
\* indirect block.
NPointers(d, oi) ==
  Cardinality({i \in DirectIdx : oi.oi_direct[i] # 0})
  + (IF oi.oi_indirect # 0
     THEN Cardinality(PointerCells(d, oi.oi_indirect)) ELSE 0)
  + (IF oi.oi_indirect2 # 0
     THEN Cardinality({cc \in Cells \X Cells :
            /\ cc[1] \in PointerCells(d, oi.oi_indirect2)
            /\ cc[2] \in PointerCells(d, ospfs_block(d, oi.oi_indirect2)[cc[1]])})
     ELSE 0)

\* Blocks reachable from the chain of oi: data, indirect and doubly indirect.
ChainBlocks(d, oi) ==
  LET ind == IF oi.oi_indirect # 0 THEN {oi.oi_indirect} ELSE {}
      ind2 == IF oi.oi_indirect2 # 0 THEN {oi.oi_indirect2} ELSE {}
      inds2 == {ospfs_block(d, b)[c] : b \in ind2, c \in Cells} \ {0}
  IN ({oi.oi_direct[i] : i \in DirectIdx}
      \cup ind \cup ind2 \cup inds2
      \cup {ospfs_block(d, b)[c] : b \in ind \cup inds2, c \in Cells}) \ {0}

\* Inodes that own a chain: symbolic links keep their target in the record.
ChainInodes(d) == {i \in Inos : d.inodes[i].oi_ftype # "SYMLINK"}

ReachableBlocks(d) ==
  UNION {ChainBlocks(d, d.inodes[i]) : i \in ChainInodes(d)}

\* C5: for every inode, the number of non-zero data-block pointers reachable
\* through its direct / indirect / doubly-indirect chain equals ceil(size/B).
ChainIntegrity ==
  \A i \in ChainInodes(disk) :
    NPointers(disk, disk.inodes[i]) = ospfs_size2nblocks(disk.inodes[i].oi_size)

\* C6: between operations, the bitmap bit of b is 0 iff b is reserved or
\* reachable from some inode's chain.
BitmapConsistency ==
  op.phase = "idle" =>
    \A b \in BlockNos :
      (disk.bitmap[b] = 0) <=> (b < os_firstdatab \/ b \in ReachableBlocks(disk))

\* C7: whenever change_size(inode, new_size) returns 0, the inode's size is
\* new_size, ceil(new_size/B) data blocks are reachable through its chain,
\* and every byte offset below new_size maps to a block of the data region.
ChangeSizeSuccess ==
  (last.call = "change_size" /\ last.ret = "OK") =>
    LET oi == disk.inodes[last.ino] IN
    /\ oi.oi_size = last.new_size
    /\ NPointers(disk, oi) = ospfs_size2nblocks(last.new_size)
    /\ \A offset \in 0 .. (last.new_size - 1) :
         LET blockno == ospfs_inode_blockno(disk, oi, offset)
         IN os_firstdatab <= blockno /\ blockno < os_nblocks

\* C8: a growing change_size that returns -ENOSPC before it committed a round
\* leaves the whole image (inodes, bitmap, blocks, journal region) as it was
\* before the call.
GrowNoSpaceFirstRound ==
  [][(/\ ncalls' = ncalls + 1
      /\ last'.call = "change_size"
      /\ last'.ret = "ENOSPC"
      /\ last'.rounds = 0) => disk' = disk]_vars

\* C8 is reached when a change_size within the size limit has just failed in
\* its first round, with blocks of the data region given out before it.
GrowNoSpaceFirstRoundWitness ==
  /\ last.call = "change_size"
  /\ last.ret = "ENOSPC"
  /\ last.rounds = 0
  /\ last.new_size <= OSPFS_MAXFILESIZE
  /\ last.new_size > disk.inodes[last.ino].oi_size

\* C9: a growing change_size that returns -ENOSPC, in whichever round, leaves
\* the file's size and the set of allocated blocks as they were before the
\* call.
GrowRollback ==
  [][(/\ ncalls' = ncalls + 1
      /\ last'.call = "change_size"
      /\ last'.ret = "ENOSPC")
     => /\ disk'.inodes[last'.ino].oi_size = disk.inodes[last'.ino].oi_size
        /\ disk'.bitmap = disk.bitmap]_vars

\* C10: when a growing change_size returns -ENOSPC after k >= 1 committed
\* rounds, the live inode is the inode round k staged, its chain and the
\* bitmap agree with that size (ceil(size/B) data pointers, every block of
\* the chain marked allocated), and the journal is empty.
GrowPartialCommit ==
  (last.call = "change_size" /\ last.ret = "ENOSPC" /\ last.rounds >= 1) =>
    LET oi == disk.inodes[last.ino] IN
    /\ oi = disk.jheader.inode
    /\ disk.jheader.completed = 0
    /\ disk.jheader.execute_type = "EMPTY"
    /\ NPointers(disk, oi) = ospfs_size2nblocks(oi.oi_size)
    /\ \A b \in ChainBlocks(disk, oi) : disk.bitmap[b] = 0

\* The part of C10 that does not rest on chain and bitmap agreement.
GrowPartialCommitInode ==
  (last.call = "change_size" /\ last.ret = "ENOSPC" /\ last.rounds >= 1) =>
    /\ disk.inodes[last.ino] = disk.jheader.inode
    /\ disk.jheader.completed = 0
    /\ disk.jheader.execute_type = "EMPTY"

\* ------------------------------------------------------------ shrink claims
\* The pointer slot of file block index i in the chain of oi, whatever the
\* size says: 0 when the slot, or a block on the way to it, is absent.
PointerAt(d, oi, i) ==
  IF i < OSPFS_NDIRECT THEN oi.oi_direct[i]
  ELSE IF i < OSPFS_NDIRECT + OSPFS_NINDIRECT
  THEN IF oi.oi_indirect = 0 THEN 0
       ELSE ospfs_block(d, oi.oi_indirect)[i - OSPFS_NDIRECT]
  ELSE LET j == i - OSPFS_NDIRECT - OSPFS_NINDIRECT
           ind == IF oi.oi_indirect2 = 0 THEN 0
                  ELSE ospfs_block(d, oi.oi_indirect2)[j \div OSPFS_NINDIRECT]
       IN IF ind = 0 THEN 0 ELSE ospfs_block(d, ind)[j % OSPFS_NINDIRECT]

FileBlockIdx == 0 .. (OSPFS_MAXFILEBLKS - 1)

\* A change_size call has just returned 0.
ChangeSizeReturnsOK ==
  /\ ncalls' = ncalls + 1
  /\ last'.call = "change_size"
  /\ last'.ret = "OK"

\* C11: after change_size(inode, 0) returned 0, the inode has size 0, its
\* direct, indirect and doubly-indirect pointers are 0, and every data,
\* indirect and doubly-indirect block its chain reached before the call is
\* marked free.
ShrinkToZero ==
  [][(ChangeSizeReturnsOK /\ last'.new_size = 0) =>
       LET old == disk.inodes[last'.ino]
           new == disk'.inodes[last'.ino]
       IN /\ new.oi_size = 0
          /\ \A i \in DirectIdx : new.oi_direct[i] = 0
          /\ new.oi_indirect = 0
          /\ new.oi_indirect2 = 0
          /\ \A b \in ChainBlocks(disk, old) : disk'.bitmap[b] = 1]_vars

\* C12: after change_size shrank a file from N blocks to M blocks, 0 < M < N,
\* the pointer slots of file blocks M .. N-1 are 0, the blocks they named and
\* the indirect and doubly-indirect blocks M blocks do not need are marked
\* free, and the pointers of file blocks 0 .. M-1 are the same as before.
ShrinkToNonZero ==
  [][ChangeSizeReturnsOK =>
       LET old == disk.inodes[last'.ino]
           new == disk'.inodes[last'.ino]
           N == ospfs_size2nblocks(old.oi_size)
           M == ospfs_size2nblocks(last'.new_size)
       IN (0 < M /\ M < N) =>
          /\ \A i \in FileBlockIdx :
               (M <= i /\ i < N) =>
                 /\ PointerAt(disk', new, i) = 0
                 /\ PointerAt(disk, old, i) # 0
                      => disk'.bitmap[PointerAt(disk, old, i)] = 1
          /\ \A i \in FileBlockIdx :
               i < M => PointerAt(disk', new, i) = PointerAt(disk, old, i)
          /\ (M <= OSPFS_NDIRECT /\ old.oi_indirect # 0)
               => new.oi_indirect = 0 /\ disk'.bitmap[old.oi_indirect] = 1
          /\ (M <= OSPFS_NDIRECT + OSPFS_NINDIRECT /\ old.oi_indirect2 # 0)
               => new.oi_indirect2 = 0 /\ disk'.bitmap[old.oi_indirect2] = 1]_vars

\* -------------------------------------------------------------- grow claims
\* C13: after a growing change_size returned 0, every data block added to the
\* file holds only zeros: the blocks of file block indices N .. M-1, N the
\* number of blocks before the call and M after it.
NewBlocksErased ==
  [][ChangeSizeReturnsOK =>
       LET old == disk.inodes[last'.ino]
           new == disk'.inodes[last'.ino]
           N == ospfs_size2nblocks(old.oi_size)
           M == ospfs_size2nblocks(new.oi_size)
       IN \A i \in FileBlockIdx :
            (N <= i /\ i < M) =>
              ospfs_block(disk', PointerAt(disk', new, i)) = ZeroBlock]_vars


\* ------------------------------------------------------------------ reading
\* ospfs_read's loop: one block, or the rest of the read, per turn.  data is
\* what copy_to_user has delivered so far.
RECURSIVE read_loop(_, _, _, _, _)
read_loop(d, oi, f_pos, count, data) ==
  IF ~(Len(data) < count) THEN [ret |-> "OK", data |-> data]
  ELSE LET blockno == ospfs_inode_blockno(d, oi, f_pos)
           off == f_pos % OSPFS_BLKSIZE
           n == Min(OSPFS_BLKSIZE - off, count - Len(data))
       IN IF blockno = 0 THEN [ret |-> "EIO", data |-> data]
          ELSE IF n = 0 THEN [ret |-> "OK", data |-> data]
          ELSE read_loop(d, oi, f_pos + n, count,
                         data \o [k \in 1 .. n |->
                                    ospfs_block(d, blockno)[off + k - 1]])

\* ospfs_read: nothing at or past the end of the file, and never past it.
ospfs_read(d, oi, f_pos, count) ==
  IF oi.oi_size <= f_pos THEN [ret |-> "OK", data |-> <<>>]
  ELSE read_loop(d, oi, f_pos,
                 IF oi.oi_size < f_pos + count THEN oi.oi_size - f_pos
                 ELSE count, <<>>)

\* A write has returned the number of bytes it was asked to move.
WriteReturned ==
  /\ op.phase = "idle"
  /\ last.call = "write"
  /\ last.ret = "OK"

\* C14: after a write of count bytes at position p returned count, a read
\* of count bytes at p returns exactly the bytes of the buffer, and the size
\* of the file is the larger of its size at entry and p + count.
WriteReadRoundTrip ==
  WriteReturned =>
    /\ last.amount = last.count
    /\ ospfs_read(disk, disk.inodes[last.ino], last.f_pos, last.count)
         = [ret |-> "OK", data |-> [k \in 1 .. last.count |-> UserData(k - 1)]]
    /\ disk.inodes[last.ino].oi_size
         = IF last.old_size < last.f_pos + last.count
           THEN last.f_pos + last.count ELSE last.old_size


\* ------------------------------------------------------ allocator claims
\* The journal holds a committed ALLOC transaction.
CommittedAlloc ==
  /\ disk.jheader.execute_type = "ALLOC"
  /\ disk.jheader.completed = 1

\* C15: in every committed ALLOC transaction the entries 0 .. n - 1 of the
\* journal's block-number list are strictly increasing.
AllocatorMonotonicity ==
  CommittedAlloc =>
    \A i, j \in Slots :
      (i < j /\ j < disk.jheader.n_blocks_affected) =>
        disk.jblocknos[i] < disk.jblocknos[j]

\* A committed ALLOC transaction that fills the block-number list.
AllocatorMonotonicityWitness ==
  /\ CommittedAlloc
  /\ disk.jheader.n_blocks_affected = JOURNAL_MAX_BLOCKS
  /\ disk.jblocknos[0] < disk.jblocknos[JOURNAL_MAX_BLOCKS - 1]

\* A round of grow_size has just been staged: nothing of it is in the
\* journal yet, and the image is the one the round was computed from.
GrowRoundStaged ==
  /\ op.phase = "stage"
  /\ op.k = 0
  /\ op.ctx.pc = "resize"
  /\ op.ctx.header.execute_type = "ALLOC"

\* The request of the round of grow_size that starts from the image d for
\* inode inode_num.
GrowRequest(d, inode_num, new_size) ==
  grow_round(d, resize_header(d, inode_num, "ALLOC"), new_size).r

\* C16: the blocks find_free_block returns within one round of grow_size
\* (data blocks, a new doubly-indirect block, a new indirect block) are
\* strictly increasing in the order of the calls, hence pairwise distinct.
GrowBatchIncreasing ==
  GrowRoundStaged =>
    LET calls == GrowRequest(disk, op.ctx.header.inode_num, op.ctx.new_size).calls IN
    \A i, j \in 1 .. Len(calls) :
      (i < j /\ calls[j].blockno # 0) => calls[i].blockno < calls[j].blockno

\* The block numbers whose bit one scan of find_free_block tests.
RECURSIVE FindFreeTests(_, _, _, _)
FindFreeTests(d, blockno, lower_bound, fuel) ==
  IF blockno = lower_bound \/ fuel = 0 THEN {}
  ELSE IF bitvector_test(d, blockno) THEN {blockno}
  ELSE {blockno} \cup FindFreeTests(d, (blockno + 1) % os_nblocks,
                                    lower_bound, fuel - 1)

\* What find_free_block returned is 0 or a free data block.
FreeDataBlock(d, blockno) ==
  \/ blockno = 0
  \/ /\ os_firstdatab <= blockno
     /\ blockno < os_nblocks
     /\ d.bitmap[blockno] = 1

\* C17: for every pair of bounds a round of grow_size passes to
\* find_free_block, the search returns 0 or a data block whose bit is 1, and
\* tests the bit of no block number outside 0 .. os_nblocks - 1.
FindFreeInRange ==
  GrowRoundStaged =>
    LET calls == GrowRequest(disk, op.ctx.header.inode_num, op.ctx.new_size).calls IN
    \A k \in 1 .. Len(calls) :
      /\ FreeDataBlock(disk, calls[k].blockno)
      /\ \A b \in FindFreeTests(disk, calls[k].upper_bound,
                                calls[k].lower_bound, os_nblocks + 2) :
           0 <= b /\ b < os_nblocks


\* ------------------------------------------------------- bitmap operations
\* allocate_blockno and free_block on their own, called with any block
\* number up to one past os_nblocks.
MaxBitmapCalls == 2
BlockArgs == 0 .. (os_nblocks + 1)

AllocateBlockno(blockno) ==
  /\ ncalls < MaxBitmapCalls
  /\ disk' = ApplyStores(disk, allocate_blockno(blockno))
  /\ last' = [NoCall EXCEPT !.call = "allocate_blockno", !.blockno = blockno]
  /\ ncalls' = ncalls + 1
  /\ UNCHANGED <<op, tx>>

FreeBlock(blockno) ==
  /\ ncalls < MaxBitmapCalls
  /\ disk' = ApplyStores(disk, free_block(blockno))
  /\ last' = [NoCall EXCEPT !.call = "free_block", !.blockno = blockno]
  /\ ncalls' = ncalls + 1
  /\ UNCHANGED <<op, tx>>

NextBitmap ==
  \E blockno \in BlockArgs : AllocateBlockno(blockno) \/ FreeBlock(blockno)

SpecBitmap == Init /\ [][NextBitmap]_vars

\* blockno is the number of a data block.
DataBlock(blockno) == os_firstdatab <= blockno /\ blockno < os_nblocks

\* C18: allocate_blockno(b) clears the bitmap bit of b when b is a data
\* block, os_firstdatab included, and changes nothing for any other b.
MarkAllocated ==
  [][last'.call = "allocate_blockno" =>
       disk' = IF DataBlock(last'.blockno)
               THEN [disk EXCEPT !.bitmap[last'.blockno] = 0]
               ELSE disk]_vars

\* C19: free_block(b) sets the bitmap bit of b exactly when b is a data
\* block and changes nothing for any other b, os_nblocks included.
MarkFree ==
  [][last'.call = "free_block" =>
       disk' = IF DataBlock(last'.blockno)
               THEN [disk EXCEPT !.bitmap[last'.blockno] = 1]
               ELSE disk]_vars


\* ---------------------------------------------------- journal mediation
\* The store the step from the current state performs, when the call in
\* progress goes on.
StoreDone ==
  IF op.phase = "stage" THEN op.ss[op.k + 1]
  ELSE IF op.phase = "exec" THEN execute_journal(disk)[op.k + 1]
  ELSE op.ss[1]

\* A store into an inode record, a bitmap bit or a block outside the
\* journal.
LiveStore(s) == s.k \in {"inode", "bitmap", "block", "cell"}

\* A call in progress performs its next store.
StoreStep ==
  /\ op.phase \in {"stage", "exec", "direct"}
  /\ op'.phase # "crashed"

\* C20: every store that create, link, symlink, write, change_size or the
\* directory append make into an inode record, a bitmap bit or a block
\* outside the journal is a store of execute_journal, made while the
\* journal's completed flag is 1.
JournalMediates ==
  [][(StoreStep /\ LiveStore(StoreDone)) =>
       (op.phase = "exec" /\ disk.jheader.completed = 1)]_vars


\* ------------------------------------------------------- journal lifecycle
\* Where the journal header is: "EMPTY", "open" (an operation is recorded,
\* completed = 0: staged, or applied and not yet cleared), "committed"
\* (completed = 1), or "odd" (EMPTY with completed = 1).
HeaderStage(h) ==
  IF h.execute_type = "EMPTY"
  THEN IF h.completed = 0 THEN "EMPTY" ELSE "odd"
  ELSE IF h.completed = 0 THEN "open" ELSE "committed"

\* The moves of the lifecycle.
LifecycleMoves ==
  {<<"EMPTY", "open">>, <<"open", "committed">>, <<"committed", "open">>,
   <<"open", "EMPTY">>}

\* A create, link, write or change_size has returned and no call is in
\* progress.
CallReturned ==
  /\ op.phase = "idle"
  /\ last.call \in {"create", "link", "write", "change_size"}

\* One step of the lifecycle: the header stays where it is or makes one of
\* the moves, and is EMPTY when the step ends a call.
LifecycleStep ==
  /\ \/ HeaderStage(disk'.jheader) = HeaderStage(disk.jheader)
     \/ <<HeaderStage(disk.jheader), HeaderStage(disk'.jheader)>>
          \in LifecycleMoves
  /\ CallReturned' => HeaderStage(disk'.jheader) = "EMPTY"

\* C21: the journal header only moves EMPTY -> staged -> committed ->
\* applied -> EMPTY, and whenever a create, link, write or change_size has
\* returned and no call is in progress it is EMPTY with completed = 0.
JournalLifecycle == [][LifecycleStep]_vars


\* ------------------------------------------------- directory-call claims
\* A create, link or symlink is entered in this step.
EntryCallBegins ==
  /\ op.phase = "idle"
  /\ ncalls' = ncalls + 1
  /\ last'.call \in {"create", "link", "symlink"}

\* C22: a create, link or symlink called with a name that find_direntry
\* finds in the directory returns -EEXIST at once, with no store into the
\* journal, an inode, a directory block or the bitmap.  (A link whose source
\* inode number is 0 is refused with -EIO before the name is looked at.)
ExistingNameRejected ==
  [][(/\ EntryCallBegins
      /\ find_direntry(disk, disk.inodes[OSPFS_ROOT_INO], last'.name)
      /\ ~(last'.call = "link" /\ last'.ino = 0))
     => (last'.ret = "EEXIST" /\ op'.phase = "idle" /\ disk' = disk)]_vars


\* A call returns -ENAMETOOLONG in this step.
NameTooLongReturned ==
  /\ last'.ret = "ENAMETOOLONG"
  /\ op'.phase = "idle"
  /\ (op.phase # "idle" \/ ncalls' = ncalls + 1)

\* C23: a create, link or symlink call that returns -ENAMETOOLONG returns
\* in the step that enters it, before any store: no inode slot is claimed,
\* no directory block or bitmap bit changes and the journal is untouched.
NameTooLongNoTrace ==
  [][NameTooLongReturned => (op.phase = "idle" /\ disk' = disk)]_vars


\* The root directory of image d has no blank entry, and change_size cannot
\* append a block to it.
DirectoryAndDiskFull(d) ==
  LET dir_oi == d.inodes[OSPFS_ROOT_INO]
      st == StartResize(d, [NoCtx EXCEPT !.call = "change_size"],
                        OSPFS_ROOT_INO, dir_oi.oi_size + OSPFS_BLKSIZE)
  IN /\ ScanBlank(d, dir_oi, 0) < 0
     /\ st.kind = "ret"
     /\ st.ret # "OK"

\* A create is entered, or a link that passes the tests of its arguments.
CreateOrLinkBegins ==
  /\ EntryCallBegins
  /\ \/ last'.call = "create"
     \/ /\ last'.call = "link"
        /\ last'.ino # 0
        /\ last'.name # LongName
        /\ ~find_direntry(disk, disk.inodes[OSPFS_ROOT_INO], last'.name)

\* C24: when the directory has no blank entry and change_size cannot append
\* a block to it, create and link return -ENOSPC and commit no CREATE or
\* HRDLNK transaction: no inode, directory block, bitmap bit or reserved
\* block is modified.
DirectoryFullDiskFull ==
  [][(CreateOrLinkBegins /\ DirectoryAndDiskFull(disk))
     => (last'.ret = "ENOSPC" /\ op'.phase = "idle" /\ disk' = disk)]_vars


\* The inode number find_entry gives for the name in the root directory of
\* image d, or 0 when no entry that is not blank carries the name.
FindEntry(d, name) ==
  LET dir_oi == d.inodes[OSPFS_ROOT_INO]
      off == LookupOff(d, dir_oi, name, 0)
  IN IF off >= dir_oi.oi_size THEN 0
     ELSE od_ino(ospfs_block(d, ospfs_inode_blockno(d, dir_oi, off))
                   [off % OSPFS_BLKSIZE])

\* A call of that name returns 0 in this step of the names specification.
CallReturnsOK(call) ==
  /\ ncalls' = ncalls + 1
  /\ last'.call = call
  /\ last'.ret = "OK"

\* The record create leaves in the slot it chose.
CreatedInode(oi) ==
  /\ oi.oi_nlink = 1
  /\ oi.oi_size = 0
  /\ oi.oi_ftype = "REG"
  /\ \A i \in DOMAIN oi.oi_direct : oi.oi_direct[i] = 0
  /\ oi.oi_indirect = 0
  /\ oi.oi_indirect2 = 0

\* C25: after create(dir, name, mode) returns 0 there is an inode slot whose
\* link count was 0 before the call, whose record now has link count 1,
\* size 0, type regular and all block pointers 0, and find_entry(dir, name)
\* gives an entry that is not blank and carries the number of that slot.
CreatePostcondition ==
  [][CallReturnsOK("create")
     => \E slot \in Inos :
          /\ disk.inodes[slot].oi_nlink = 0
          /\ CreatedInode(disk'.inodes[slot])
          /\ slot # 0    \* an entry that is not blank carries no 0
          /\ FindEntry(disk', last'.name) = slot]_vars


\* The entry at offset off of the root directory of image d (0 past its end).
EntryAt(d, off) ==
  LET dir_oi == d.inodes[OSPFS_ROOT_INO]
  IN IF off >= dir_oi.oi_size THEN 0
     ELSE ospfs_block(d, ospfs_inode_blockno(d, dir_oi, off))[off % OSPFS_BLKSIZE]

\* Offsets of entries a directory of the largest size has.
EntryOffsets == 0 .. (OSPFS_MAXFILESIZE - 1)

\* C26: after link(dir, name, target) returns 0, there is one slot, blank
\* before the call, that now holds exactly (target, name), whatever name
\* the slot held before; no other entry of the directory changed,
\* find_entry(dir, name) gives target, and the link count of target is one
\* more than before.
LinkPostcondition ==
  [][CallReturnsOK("link")
     => /\ \E slot \in EntryOffsets :
             /\ od_ino(EntryAt(disk, slot)) = 0
             /\ EntryAt(disk', slot) = DirEntry(last'.ino, last'.name)
             /\ \A off \in EntryOffsets \ {slot} :
                   off < disk.inodes[OSPFS_ROOT_INO].oi_size
                     => EntryAt(disk', off) = EntryAt(disk, off)
        /\ FindEntry(disk', last'.name) = last'.ino
        /\ disk'.inodes[last'.ino].oi_nlink = disk.inodes[last'.ino].oi_nlink + 1]_vars


\* The bytes a read of the whole file of inode ino gives on image d.
FileBytes(d, ino) ==
  ospfs_read(d, d.inodes[ino], 0, d.inodes[ino].oi_size).data

\* The blocks of the file of inode ino on image d: its data blocks and the
\* blocks that hold its pointers.
BlocksOfFile(d, ino) ==
  LET oi == d.inodes[ino]
      nblocks == ospfs_size2nblocks(oi.oi_size)
      data == {ospfs_inode_blockno(d, oi, k * OSPFS_BLKSIZE) : k \in 0 .. (nblocks - 1)}
      ind == IF nblocks > OSPFS_NDIRECT THEN {oi.oi_indirect} ELSE {}
      ind2 == IF nblocks > OSPFS_NDIRECT + OSPFS_NINDIRECT
              THEN {oi.oi_indirect2}
                   \cup {ospfs_block(d, oi.oi_indirect2)[k] :
                           k \in 0 .. ((nblocks - OSPFS_NDIRECT - 1) \div OSPFS_NINDIRECT - 1)}
              ELSE {}
  IN data \cup ind \cup ind2

\* unlink(A) returns 0 in this step, and the call before it was a link that
\* gave the file of A, which had one link, the second name B.
UnlinkAfterLink ==
  /\ CallReturnsOK("unlink")
  /\ last.call = "link"
  /\ last.ret = "OK"
  /\ last'.ino = last.ino
  /\ last'.name # last.name
  /\ disk.inodes[last.ino].oi_nlink = 2

\* C27: a regular file has the name A and one link; after link(A -> B) and
\* then unlink(A), find_entry for B still gives the inode of the file, its
\* link count is 1, none of its blocks has been freed and a read through B
\* gives the bytes the file held.
HardLinkSurvives ==
  [][UnlinkAfterLink
     => /\ FindEntry(disk', last.name) = last.ino
        /\ disk'.inodes[last.ino].oi_nlink = 1
        /\ \A b \in BlocksOfFile(disk, last.ino) : disk'.bitmap[b] = 0
        /\ FileBytes(disk', last.ino) = FileBytes(disk, last.ino)]_vars


\* C28: unlink blanks the entry of the name and takes one from the link
\* count of its file.  While the count stays positive no block is freed and
\* the inode is otherwise unchanged; when it reaches 0 on a regular file,
\* change_size(inode, 0) frees every block of the file, and the inode slot
\* is free.
UnlinkFreesOnLastLink ==
  [][CallReturnsOK("unlink") =>
       LET old == disk.inodes[last'.ino]
           new == disk'.inodes[last'.ino]
           off == LookupOff(disk, disk.inodes[OSPFS_ROOT_INO], last'.name, 0)
       IN /\ od_ino(EntryAt(disk', off)) = 0
          /\ new.oi_nlink = old.oi_nlink - 1
          /\ new.oi_nlink > 0
               => /\ disk'.bitmap = disk.bitmap
                  /\ new = [old EXCEPT !.oi_nlink = @ - 1]
          /\ (new.oi_nlink = 0 /\ old.oi_ftype = "REG")
               => /\ \A b \in ChainBlocks(disk, old) : disk'.bitmap[b] = 1
                  /\ new.oi_size = 0]_vars


\* A create or link returns 0 in this step, and find_blank_direntry
\* appended one block to the root directory for it.
DirectoryAppended ==
  /\ \/ CallReturnsOK("create")
     \/ CallReturnsOK("link")
  /\ disk'.inodes[OSPFS_ROOT_INO].oi_size
       = disk.inodes[OSPFS_ROOT_INO].oi_size + OSPFS_BLKSIZE

\* C29: when find_blank_direntry finds no blank slot and appends one block
\* to the directory with change_size, the appended block is zeroed before
\* the new entry goes into its first slot, whatever the block held while it
\* was free: after the call every other slot of the block is 0.
AppendedBlockBlank ==
  [][DirectoryAppended =>
       LET old_size == disk.inodes[OSPFS_ROOT_INO].oi_size
       IN \A off \in EntryOffsets :
             (old_size < off /\ off < old_size + OSPFS_BLKSIZE)
               => EntryAt(disk', off) = 0]_vars


\* C30: change_size with a new_size above OSPFS_MAXFILESIZE returns -ENOSPC
\* and leaves the whole image as it was: journal region, inodes and bitmap.
OversizedRequest ==
  [][(/\ ncalls' = ncalls + 1
      /\ last'.call = "change_size"
      /\ last'.new_size > OSPFS_MAXFILESIZE)
     => (last'.ret = "ENOSPC" /\ last'.rounds = 0 /\ disk' = disk)]_vars

\* C30 is reached when a change_size above the limit has just returned, on
\* an image with room for more blocks.
OversizedRequestWitness ==
  /\ last.call = "change_size"
  /\ last.new_size > OSPFS_MAXFILESIZE
  /\ last.ret = "ENOSPC"
  /\ \E b \in os_firstdatab .. (os_nblocks - 1) : disk.bitmap[b] = 1


\* Every call of find_free_block in the first round of a grow of inode ino
\* to new_size on image d ends within one pass over the blocks.
FindFreeTerminates(d, ino, new_size) ==
  LET calls == GrowRequest(d, ino, new_size).calls
  IN \A i \in 1 .. Len(calls) : calls[i].blockno >= 0

\* C31: every change_size call ends: the round loop of grow_size and of
\* free_memory stops within the rounds a file of the largest size can need,
\* and every scan of find_free_block a grow makes from a state between
\* calls reaches its lower bound or a free block.
ChangeSizeTerminates ==
  /\ last.ret # "LOOP"
  /\ \A ino \in RegularFiles(disk), new_size \in NewSizes :
        change_size_kind(disk.inodes[ino], new_size) = "ALLOC"
          => FindFreeTerminates(disk, ino, new_size)

\* C31 is reached when a grow over several rounds and a shrink over several
\* rounds have returned.
ChangeSizeTerminatesWitness ==
  /\ last.call = "change_size"
  /\ last.ret = "OK"
  /\ last.rounds >= 4
  /\ last.new_size < OSPFS_BLKSIZE


\* A round of grow_size or free_memory has just been staged: nothing of it
\* is in the journal yet, and the image is the one it was computed from.
ResizeRoundStaged ==
  /\ op.phase = "stage"
  /\ op.k = 0
  /\ op.ctx.pc = "resize"

\* The request of that round.
StagedRequest ==
  resize_round(disk,
               resize_header(disk, op.ctx.header.inode_num,
                             op.ctx.header.execute_type),
               op.ctx.new_size).r

\* C32: the header in the journal never has n_blocks_affected above
\* JOURNAL_MAX_BLOCKS; no round of grow_size or free_memory (the removal of
\* oi_direct[0] at size 0 included) stores a block number outside the
\* block-number list, and no journal write of a call uses a data slot
\* outside the journal region.
BoundedBatch ==
  /\ disk.jheader.n_blocks_affected <= JOURNAL_MAX_BLOCKS
  /\ \A i \in 1 .. Len(op.ss) :
        /\ op.ss[i].k = "jdata" => op.ss[i].a \in Slots
        /\ op.ss[i].k = "jheader" => op.ss[i].v.n_blocks_affected <= JOURNAL_MAX_BLOCKS
  /\ ResizeRoundStaged => StagedRequest.n <= JOURNAL_MAX_BLOCKS


\* The last round of a shrink to size 0 is staged with a full block-number
\* list: the removals of the round and the removal of oi_direct[0].
BoundedBatchWitness ==
  /\ ResizeRoundStaged
  /\ op.ctx.header.execute_type = "FREE"
  /\ op.ctx.new_size = 0
  /\ op.ss[1].k = "jheader"
  /\ op.ss[1].v.inode.oi_size = 0
  /\ op.ss[1].v.n_blocks_affected = JOURNAL_MAX_BLOCKS
  /\ StagedRequest.n = JOURNAL_MAX_BLOCKS

\* The block a pointer names, all zero when the pointer is 0 (no block yet).
BlockOrZero(d, blockno) ==
  IF blockno = 0 THEN ZeroBlock ELSE ospfs_block(d, blockno)

\* What the scratch buffers of a round that starts from inode oi are to hold:
\* the doubly-indirect block of the file, and the indirect block with the
\* slot of block count nblocks.
ExpectedIndirect2(d, oi) ==
  IF ospfs_size2nblocks(oi.oi_size) >= OSPFS_NDIRECT + OSPFS_NINDIRECT
  THEN BlockOrZero(d, oi.oi_indirect2)
  ELSE ZeroBlock

ExpectedIndirect(d, oi) ==
  LET nblocks == ospfs_size2nblocks(oi.oi_size) IN
  IF nblocks >= OSPFS_NDIRECT + OSPFS_NINDIRECT
  THEN BlockOrZero(d, GetAt(BlockOrZero(d, oi.oi_indirect2),
                            (nblocks - OSPFS_NDIRECT - OSPFS_NINDIRECT)
                               \div OSPFS_NINDIRECT))
  ELSE BlockOrZero(d, oi.oi_indirect)

\* C33: at the start of every round of grow_size and free_memory the scratch
\* indirect2_block of the request is the doubly-indirect block of the file,
\* and the scratch indirect_block is the indirect block that holds the slot of
\* the file's block count (slot indir_idx of the doubly-indirect block in the
\* doubly-indirect range, oi_indirect in the indirect range); a block that
\* does not exist yet gives an all-zero buffer. Stated for the first round of
\* a call on any regular file, which starts from the state between calls.
ScratchBuffersAtRoundStart ==
  \A ino \in RegularFiles(disk) :
    /\ init_resize_request(disk, disk.inodes[ino]).indirect2_block
         = ExpectedIndirect2(disk, disk.inodes[ino])
    /\ ospfs_size2nblocks(disk.inodes[ino].oi_size) >= OSPFS_NDIRECT
         => init_resize_request(disk, disk.inodes[ino]).indirect_block
              = ExpectedIndirect(disk, disk.inodes[ino])

\* Block count nblocks is the first of an indirect block: the block that
\* comes next needs a new indirect block (and at OSPFS_NDIRECT +
\* OSPFS_NINDIRECT the doubly-indirect block).
ChainBoundary(nblocks) ==
  block_indirect_index(nblocks) >= 0 /\ block_direct_index(nblocks) = 0

\* The round rd staged from inode `start` brings a chain block that was not
\* there: another oi_indirect, another oi_indirect2, or another slot of the
\* doubly-indirect block.
ChainBlockAdded(d, start, rd) ==
  \/ rd.header.inode.oi_indirect # start.oi_indirect
  \/ rd.header.inode.oi_indirect2 # start.oi_indirect2
  \/ rd.r.indirect2_block # init_resize_request(d, start).indirect2_block

\* The image after round rd is committed and replayed.
AfterRound(d, rd) == commit_round(d, rd)

\* The round rd of grow_size staged on image d from inode `start` of nblocks
\* blocks, for a file of desired_size blocks, at the boundaries of the chain.
GrowBoundaryRound(d, start, rd, nblocks, desired_size) ==
  /\ ChainBlockAdded(d, start, rd) =>
       /\ ChainBoundary(nblocks)
       /\ rd.r.n = 1
  /\ (ChainBoundary(nblocks) /\ nblocks < desired_size) =>
       /\ ChainBlockAdded(d, start, rd)
       /\ rd.r.resize_type # {}
       /\ rd.r.n = 1
  /\ (rd.r.resize_type # {} /\ ~ChainBoundary(nblocks)) =>
       /\ rd.r.n > 0
       /\ rd.header.n_blocks_affected = rd.r.n
       /\ ospfs_size2nblocks(rd.header.inode.oi_size) = nblocks + rd.r.n
       /\ ChainBoundary(nblocks + rd.r.n)
       /\ ~ChainBlockAdded(d, start, rd)
       /\ \A i \in Slots : (rd.r.blocknos[i] # 0) <=> (i < rd.r.n)
       /\ Len(rd.r.calls) = rd.r.n + 1
       /\ bitvector_test(AfterRound(d, rd), rd.r.calls[Len(rd.r.calls)].blockno)
       /\ rd.r.calls[Len(rd.r.calls)].blockno \notin ReachableBlocks(AfterRound(d, rd))

\* The first round of change_size(ino, new_size) from the state between
\* calls, when it grows the file and finds the blocks it asks for.
GrowBoundaryFrom(d, ino, new_size, rd) ==
  (change_size_kind(d.inodes[ino], new_size) = "ALLOC" /\ rd.error = "OK")
    => GrowBoundaryRound(d, d.inodes[ino], rd,
                         ospfs_size2nblocks(d.inodes[ino].oi_size),
                         ospfs_size2nblocks(new_size))

\* C34: a round of grow_size brings a new indirect or doubly-indirect block
\* only with its first entry; a round that reaches the boundary with n > 0
\* commits the n entries staged so far and no chain block, the data block
\* found for the abandoned entry is free and in no chain after the round, and
\* a round that starts at the boundary begins with the boundary allocation.
\* Stated for the first round of every growing call on a regular file.
GrowEndsBatchAtBoundary ==
  \A ino \in RegularFiles(disk), new_size \in NewSizes :
    GrowBoundaryFrom(disk, ino, new_size,
                     grow_round(disk, resize_header(disk, ino, "ALLOC"), new_size))

\* One more removal after the removals that gave res.
FreeStepsNext(res) == free_block_file(res.oi, res.r)

\* free_block_file applied k times from inode copy oi and request r.
RECURSIVE FreeSteps(_, _, _)
FreeSteps(oi, r, k) ==
  IF k = 0 THEN [oi |-> oi, r |-> r, error |-> "OK"]
  ELSE FreeStepsNext(FreeSteps(oi, r, k - 1))

\* The block that holds the pointer slot of file index idx in the chain of
\* inode oi: slot indir_idx of the doubly-indirect block, or oi_indirect.
PointerHolder(d, oi, idx) ==
  IF idx.indir2_idx = 0
  THEN GetAt(BlockOrZero(d, oi.oi_indirect2), idx.indir_idx)
  ELSE oi.oi_indirect

\* The blocks the replay of round rd frees as chain blocks.
ChainBlocksFreed(rd) ==
  (IF "INDIRECT" \in rd.header.file_resize_type
   THEN {rd.header.indirect_blockno} ELSE {})
  \cup (IF "INDIRECT2" \in rd.header.file_resize_type
        THEN {rd.header.indirect2_blockno} ELSE {})

\* The round rd of free_memory staged on image d from inode `start`, with
\* `before` the inode copy and request before the last removal of the round.
ShrinkBoundaryRound(d, start, rd, before) ==
  rd.r.resize_type # {} =>
    /\ before.r.resize_type = {}
    /\ FreeStepsNext(before).r = rd.r
    /\ "INDIRECT" \in rd.r.resize_type
    /\ rd.header.indirect_blockno
         = PointerHolder(d, start, init_file_index(before.oi))
    /\ "INDIRECT2" \in rd.r.resize_type
         => rd.header.indirect2_blockno = start.oi_indirect2
    /\ ChainBlocksFreed(rd) \cap ReachableBlocks(AfterRound(d, rd)) = {}

\* The first round of change_size(ino, new_size) from the state between
\* calls, when it shrinks the file.
ShrinkBoundaryFrom(d, ino, new_size, rd) ==
  change_size_kind(d.inodes[ino], new_size) = "FREE"
    => ShrinkBoundaryRound(d, d.inodes[ino], rd,
                           FreeSteps(d.inodes[ino],
                                     init_resize_request(d, d.inodes[ino]),
                                     rd.r.n - 1))

\* C35: a round of free_memory that frees an indirect or doubly-indirect
\* block ends with the removal that frees it; the block freed is the one that
\* held the removed pointer (slot indir_idx of the doubly-indirect block, or
\* oi_indirect), and after the replay no chain refers to it. Stated for the
\* first round of every shrinking call on a regular file.
ShrinkEndsBatchAtBoundary ==
  \A ino \in RegularFiles(disk), new_size \in NewSizes :
    ShrinkBoundaryFrom(disk, ino, new_size,
                       free_round(disk, resize_header(disk, ino, "FREE"), new_size))

\* Byte offsets into a file: every offset of a file of the largest size, and
\* the first one past it.
Offsets == 0 .. OSPFS_MAXFILESIZE

\* Cell c of the block pointer blockno names.
CellOf(d, blockno, c) == ospfs_block(d, blockno)[c]

\* The block of byte `offset` of inode oi, by the range its block index q
\* falls into.
BlockOfOffset(d, oi, offset, q) ==
  CASE offset >= oi.oi_size -> 0
    [] offset < oi.oi_size /\ oi.oi_ftype = "SYMLINK" -> 0
    [] offset < oi.oi_size /\ oi.oi_ftype # "SYMLINK" /\ q < OSPFS_NDIRECT ->
         oi.oi_direct[q]
    [] offset < oi.oi_size /\ oi.oi_ftype # "SYMLINK" /\ OSPFS_NDIRECT <= q
         /\ q < OSPFS_NDIRECT + OSPFS_NINDIRECT ->
         CellOf(d, oi.oi_indirect, q - OSPFS_NDIRECT)
    [] offset < oi.oi_size /\ oi.oi_ftype # "SYMLINK"
         /\ q >= OSPFS_NDIRECT + OSPFS_NINDIRECT ->
         CellOf(d,
                   CellOf(d, oi.oi_indirect2,
                             (q - (OSPFS_NDIRECT + OSPFS_NINDIRECT)) \div OSPFS_NINDIRECT),
                   (q - (OSPFS_NDIRECT + OSPFS_NINDIRECT)) % OSPFS_NINDIRECT)

\* C36: for every inode and byte offset, ospfs_inode_blockno gives 0 when the
\* offset is not below oi_size or the inode is a symbolic link; otherwise,
\* with q the offset divided by OSPFS_BLKSIZE, oi_direct[q] below
\* OSPFS_NDIRECT, cell q - OSPFS_NDIRECT of the indirect block below
\* OSPFS_NDIRECT + OSPFS_NINDIRECT, and from there cell r % OSPFS_NINDIRECT of
\* the indirect block in cell r / OSPFS_NINDIRECT of the doubly-indirect
\* block, r being q - (OSPFS_NDIRECT + OSPFS_NINDIRECT).
AddressTranslation ==
  \A ino \in Inos, offset \in Offsets :
    ospfs_inode_blockno(disk, disk.inodes[ino], offset)
      = BlockOfOffset(disk, disk.inodes[ino], offset, offset \div OSPFS_BLKSIZE)

\* A file whose last byte is in the second indirect block of its
\* doubly-indirect block, mapped to a block that the first indirect block
\* does not name in the same cell, next to a symbolic link that has bytes.
AddressTranslationWitness ==
  /\ \E ino \in Inos :
       /\ disk.inodes[ino].oi_ftype # "SYMLINK"
       /\ disk.inodes[ino].oi_size > (OSPFS_NDIRECT + 2 * OSPFS_NINDIRECT) * OSPFS_BLKSIZE
       /\ ospfs_inode_blockno(disk, disk.inodes[ino], disk.inodes[ino].oi_size - 1) # 0
       /\ ospfs_inode_blockno(disk, disk.inodes[ino], disk.inodes[ino].oi_size - 1)
            # ospfs_inode_blockno(disk, disk.inodes[ino],
                                  disk.inodes[ino].oi_size - 1
                                    - OSPFS_NINDIRECT * OSPFS_BLKSIZE)
  /\ \E ino \in Inos :
       /\ disk.inodes[ino].oi_ftype = "SYMLINK"
       /\ disk.inodes[ino].oi_size > 0

\* The pointer slots of the chain of inode ino that hold a block number, each
\* with the place it is at: a direct slot, oi_indirect, oi_indirect2, a cell
\* of the indirect block, a cell of the doubly-indirect block, or a cell of
\* an indirect block of the doubly-indirect block.
InodePointerSlots(d, ino, oi) ==
  {s \in
     {<<ino, "direct", i, 0, oi.oi_direct[i]>> : i \in DirectIdx}
     \cup {<<ino, "indirect", 0, 0, oi.oi_indirect>>,
           <<ino, "indirect2", 0, 0, oi.oi_indirect2>>}
     \cup (IF oi.oi_indirect = 0 THEN {}
           ELSE {<<ino, "indirect_block", c, 0, CellOf(d, oi.oi_indirect, c)>> :
                   c \in Cells})
     \cup (IF oi.oi_indirect2 = 0 THEN {}
           ELSE {<<ino, "indirect2_block", c, 0, CellOf(d, oi.oi_indirect2, c)>> :
                   c \in Cells})
     \cup (IF oi.oi_indirect2 = 0 THEN {}
           ELSE {<<ino, "indirect2_indirect", cc[1], cc[2],
                   CellOf(d, CellOf(d, oi.oi_indirect2, cc[1]), cc[2])>> :
                   cc \in {x \in Cells \X Cells :
                             CellOf(d, oi.oi_indirect2, x[1]) # 0}}) :
     s[5] # 0}

PointerSlots(d) ==
  UNION {InodePointerSlots(d, ino, d.inodes[ino]) : ino \in ChainInodes(d)}

\* C37: between calls no block number is in two different pointer slots: no
\* data, indirect or doubly-indirect block is named twice in the chain of one
\* inode or in the chains of two inodes.
ExclusiveOwnership ==
  \A s \in PointerSlots(disk), t \in PointerSlots(disk) :
    s[5] = t[5] => s = t

\* The boot block and the superblock.
ReservedBlocks == {0, 1}

\* Store s writes a block of ReservedBlocks, whole or one cell of it.
IntoReserved(s) ==
  \/ s.k = "block" /\ s.a \in ReservedBlocks
  \/ s.k = "cell" /\ s.a[1] \in ReservedBlocks

\* C38: no store of a call (create, link, symlink, the append of a directory
\* block, write, change_size, the replay of the journal) goes into block 0 or
\* block 1.
ReservedBlocksNotWritten ==
  op.phase \in {"stage", "exec", "direct"} => ~IntoReserved(StoreDone)

\* The number of entries of the root directory whose od_ino is ino.
EntriesOf(d, ino) ==
  Cardinality({off \in EntryOffsets : od_ino(EntryAt(d, off)) = ino})

\* The inodes a directory entry can name: od_ino 0 is the blank entry, and
\* no entry names the root directory.
NamedInodes == Inos \ {0, OSPFS_ROOT_INO}

\* C39: between calls the oi_nlink of every inode is the number of directory
\* entries whose od_ino is its number, so that no entry names an inode with
\* oi_nlink 0.
LinkCountConsistency ==
  \A ino \in NamedInodes : disk.inodes[ino].oi_nlink = EntriesOf(disk, ino)

\* The blocks in the chains of the inodes other than ino.
BlocksOfOthers(d, ino) ==
  UNION {ChainBlocks(d, d.inodes[i]) : i \in ChainInodes(d) \ {ino}}

\* The data blocks ospfs_inode_blockno maps for inode ino.
MappedBlocks(d, ino) ==
  {ospfs_inode_blockno(d, d.inodes[ino], offset) : offset \in Offsets}
    \cap (os_firstdatab .. (os_nblocks - 1))

\* The journal holds a committed WRITE transaction of the call in progress.
WriteCommitted ==
  /\ op.ctx.call = "write"
  /\ op.phase = "exec"
  /\ disk.jheader.execute_type = "WRITE"

\* The destinations of the committed list are blocks of file ino.
WriteDestinations(d, ino) ==
  \A i \in Slots :
    i < d.jheader.n_blocks_affected => d.jblocknos[i] \in MappedBlocks(d, ino)

\* A store of ospfs_write on inode ino: no other inode record and no block in
\* the chain of another inode changes.
WriteFrameStore(ino) ==
  /\ \A i \in Inos \ {ino} : disk'.inodes[i] = disk.inodes[i]
  /\ \A b \in BlocksOfOthers(disk, ino) :
       ospfs_block(disk', b) = ospfs_block(disk, b)

\* C40: every store of a write to inode X, whether the write succeeds or
\* fails, leaves every other inode record and every block in the chain of
\* another inode as it was, and every destination in the block-number list of
\* a committed WRITE transaction is a data block ospfs_inode_blockno maps for
\* X.
WriteFrame ==
  [][(op.ctx.call = "write" /\ StoreStep) =>
        /\ WriteFrameStore(op.ctx.ino)
        /\ WriteCommitted => WriteDestinations(disk, op.ctx.ino)]_vars

=========================================================================
